---- MODULE Spec2Model ----
\* Verification model of the avatar response pipeline (AI-Crew):
\*   core/generator.py   _get_llm_config, _chat_completion, _generate_response
\*   tools/__init__.py   ToolManager
EXTENDS Integers, Sequences, FiniteSets, TLC

\* ------------------------------------------------------------------ bounds

\* Largest number of tool-invocation requests one backend reply carries.
MaxCalls == 2

\* The most chunks the knowledge store holds.
MaxDocs == 4

\* The largest distance of a chunk from the query.
MaxDistance == 2

\* The default limit of _get_rag_context.
RagLimit == 3

\* The most messages published in one run of the bus.
MaxMessages == 2

\* The most consumer tasks created in one run of the bus.
MaxTasks == 2

\* The most callbacks registered under one key.
MaxSubscriptions == 2

\* The most subscribe and unsubscribe calls in one run of the bus.
MaxRegistrations == 3

\* The items that arrive on one channel, for all the avatars together.
MaxItems == 2

\* The calls of _load_tools on one ToolManager.
MaxLoads == 2

\* The statements sent to the history tables.
MaxStatements == 4

\* The text channels the Discord client sees.
MaxChannels == 2

\* The messages posted to the Discord channels.
MaxPosts == 2

\* ------------------------------------------------------------- values

\* A key a Python dict does not hold.
Absent == <<>>

\* Python's None as a message content.
None == <<"None">>

\* The text returned when generation fails (generator.py:187).
FALLBACK == <<"I'm sorry, but I'm currently unable to process your request.">>

\* The instruction appended before the second backend call (generator.py:172).
final_instruction == <<"Based *only* on the information provided by the tool results, ...">>

\* Texts a backend reply may carry.
ReplyTexts == {<<"text_a">>, <<"text_b">>, None}

\* ------------------------------------------------- ToolManager (tools/__init__.py)

\* Keyword parameters of the executables the registry holds after _load_tools:
\* calculator(expression), wikipedia(query, lang='en').
tools ==
  [calculator |-> [required |-> {"expression"}, accepted |-> {"expression"}],
   wikipedia  |-> [required |-> {"query"}, accepted |-> {"query", "lang"}]]

\* Tool names a backend may request: the registered ones and one that is not.
RequestedNames == DOMAIN tools \cup {"ghost_tool"}

\* What running an executable's body can do: return a JSON-encodable value,
\* raise, or return a value json.dumps cannot encode (calculator returns
\* whatever eval gives: "(-1)**0.5" is a complex number, "sin" a function).
ToolOutcomes == {"returns", "raises", "returns_unencodable"}

\* get_tool_definitions: the definitions of the requested names the registry holds.
get_tool_definitions(tool_names) == {name \in tool_names : name \in DOMAIN tools}

\* Python's binding of **kwargs to tool_func's parameters.
binds(tool_name, kwargs) ==
  /\ kwargs \subseteq tools[tool_name].accepted
  /\ tools[tool_name].required \subseteq kwargs

\* No value: the call raised.
NoValue == <<"none", "none", "none">>

\* execute_tool without its try block: the executable's exception leaves the call.
execute_tool_uncaught(tool_name, kwargs, outcome) ==
  IF "tool_name" \in kwargs
  THEN [exc |-> "TypeError", value |-> NoValue, ran |-> FALSE]
  ELSE IF tool_name \notin DOMAIN tools
  THEN [exc |-> "none", value |-> <<"str", "Error: Tool not found.", tool_name>>, ran |-> FALSE]
  ELSE IF ~binds(tool_name, kwargs)
  THEN [exc |-> "TypeError", value |-> NoValue, ran |-> FALSE]
  ELSE IF outcome = "raises"
  THEN [exc |-> "Exception", value |-> NoValue, ran |-> TRUE]
  ELSE IF outcome = "returns_unencodable"
  THEN [exc |-> "none", value |-> <<"object", "payload", tool_name>>, ran |-> TRUE]
  ELSE [exc |-> "none", value |-> <<"dict", "payload", tool_name>>, ran |-> TRUE]

\* execute_tool(tool_name, **kwargs): the exception that leaves the call
\* ("none" when it returns), the value returned and whether the executable's
\* body ran. A keyword named tool_name collides with execute_tool's own
\* parameter: Python raises TypeError before execute_tool's body starts. A
\* failed binding of tool_func raises TypeError before the executable's body
\* runs; every exception inside the try block becomes an "Error: ..." string.
execute_tool(tool_name, kwargs, outcome) ==
  IF "tool_name" \in kwargs
  THEN [exc |-> "TypeError", value |-> NoValue, ran |-> FALSE]
  ELSE IF tool_name \notin DOMAIN tools
  THEN [exc |-> "none", value |-> <<"str", "Error: Tool not found.", tool_name>>, ran |-> FALSE]
  ELSE IF ~binds(tool_name, kwargs)
  THEN [exc |-> "none", value |-> <<"str", "Error: TypeError", tool_name>>, ran |-> FALSE]
  ELSE IF outcome = "raises"
  THEN [exc |-> "none", value |-> <<"str", "Error: raised", tool_name>>, ran |-> TRUE]
  ELSE IF outcome = "returns_unencodable"
  THEN [exc |-> "none", value |-> <<"object", "payload", tool_name>>, ran |-> TRUE]
  ELSE [exc |-> "none", value |-> <<"dict", "payload", tool_name>>, ran |-> TRUE]

\* ------------------------------------------------------------- json

\* Argument texts a tool-invocation request may carry.
ArgTexts ==
  {"{\"expression\": \"1+1\"}", "{\"query\": \"x\"}", "{\"tool_name\": \"x\"}",
   "[1]", "{bad"}

\* json.loads: the decoded value (for a dict, its keys), or JSONDecodeError.
json_loads(s) ==
  CASE s = "{\"expression\": \"1+1\"}" -> [type |-> "dict", keys |-> {"expression"}]
    [] s = "{\"query\": \"x\"}" -> [type |-> "dict", keys |-> {"query"}]
    [] s = "{\"tool_name\": \"x\"}" -> [type |-> "dict", keys |-> {"tool_name"}]
    [] s = "[1]" -> [type |-> "list", keys |-> {}]
    [] OTHER -> [type |-> "JSONDecodeError", keys |-> {}]

\* json.dumps raises TypeError for a value it cannot encode.
json_encodable(value) == value[1] # "object"

json_dumps(value) == <<"json">> \o value

\* ------------------------------------------------------------- backend replies

CallId(k) == <<"call", k>>

Functions == [name : RequestedNames, arguments : ArgTexts]

\* The tool_calls lists of n requests; the k-th request carries id CallId(k).
ToolCallLists(n) ==
  {[k \in 1..n |-> [id |-> CallId(k), function |-> f[k]]] : f \in [1..n -> Functions]}

AllToolCallLists == UNION {ToolCallLists(n) : n \in 0..MaxCalls}

Message(role, content, tool_call_id, name, tool_calls) ==
  [role |-> role, content |-> content, tool_call_id |-> tool_call_id,
   name |-> name, tool_calls |-> tool_calls]

\* The assistant turns the backend may answer PROPOSE with.
ProposeReplies ==
  {Message("assistant", c, Absent, Absent, tc) : c \in ReplyTexts, tc \in AllToolCallLists}

\* The assistant turns the backend may answer FINALIZE with: text, with or
\* without further tool-invocation requests.
FinalizeReplies ==
  {Message("assistant", c, Absent, Absent, tc) :
     c \in ReplyTexts,
     tc \in {<<>>, <<[id |-> CallId(1),
                      function |-> [name |-> "calculator",
                                    arguments |-> "{\"expression\": \"1+1\"}"]]>>}}

\* ------------------------------------------------------------- state

VARIABLES
  avatar_profile,    \* the profile generation runs for
  pc,                \* position in _generate_response
  llm_conf,          \* _get_llm_config's result
  tool_definitions,  \* names of the tool schemas offered in PROPOSE
  messages,          \* the message list
  chat_calls,        \* the _chat_completion calls made so far
  response_message,  \* the PROPOSE reply
  i,                 \* index of the next tool call of the EXECUTE loop
  executions,        \* the tool calls whose executable body ran
  final_response,    \* the FINALIZE reply
  retval             \* how _generate_response ended

genVars ==
  <<avatar_profile, pc, llm_conf, tool_definitions, messages, chat_calls,
    response_message, i, executions, final_response, retval>>

VARIABLES
  cc_llm_config,     \* _chat_completion's llm_config argument
  cc_tools,          \* its tools argument (empty: None or [])
  cc_pc,             \* position in _chat_completion
  payload,           \* the keys of the request payload
  requests,          \* the requests sent to the backend so far
  responses,         \* the HTTP responses received so far
  cc_retval          \* how _chat_completion ended

chatVars == <<cc_llm_config, cc_tools, cc_pc, payload, requests, responses, cc_retval>>

VARIABLES
  gate_profile,      \* is_avatar_active's avatar_profile argument
  activity_types,    \* its activity_types argument
  now_utc,           \* the UTC weekday and hour at the call
  gate_pc,           \* position in is_avatar_active
  gate_result        \* what is_avatar_active returned

gateVars == <<gate_profile, activity_types, now_utc, gate_pc, gate_result>>

VARIABLES
  filter_defaults,   \* the process-wide LLM defaults should_reply_to_email resolves
  filter_pc,         \* position in should_reply_to_email
  filter_retval      \* how should_reply_to_email ended

filterVars == <<filter_defaults, filter_pc, filter_retval>>

VARIABLES
  rag_query,         \* context.get('rag_query')
  rag_limit,         \* _get_rag_context's limit
  rag_threshold,     \* default_rag_distance_threshold
  documents,         \* the distance of each stored chunk from the query
  db_state,          \* whether the store connects and whether its query runs
  rag_pc,            \* position in lines 131-148 and in _get_rag_context
  embed_calls,       \* how many times generate_embedding was called
  store_calls,       \* how many times search_rag_documents was called
  query_embedding,   \* what generate_embedding returned
  results,           \* what search_rag_documents returned
  rag_context,       \* what _get_rag_context returned
  prompt             \* the prompt handed to the first backend call

ragVars ==
  <<rag_query, rag_limit, rag_threshold, documents, db_state, rag_pc, embed_calls,
    store_calls, query_embedding, results, rag_context, prompt>>

VARIABLES
  subscribers,       \* InternalEventBus._subscribers: key -> list of callbacks
  queue,             \* InternalEventBus._queue
  processing_task,   \* InternalEventBus._processing_task (0: None)
  tasks,             \* every consumer task created so far
  published,         \* how many messages were published
  dispatched,        \* the ids of the messages taken from the queue, in order
  registrations      \* how many subscribe and unsubscribe calls were made

busVars ==
  <<subscribers, queue, processing_task, tasks, published, dispatched, registrations>>

VARIABLES
  channel,           \* the channel whose scheduled_<channel>_check runs
  profiles,          \* app.state.avatars: each avatar's profile as the gate reads it
  connectors,        \* whether avatar_profile['connectors'] holds this channel's connector
  inbox,             \* per avatar, the item ids the service holds, oldest first
  unread,            \* per avatar, the ids the service still reports as new
  db_connected,      \* db.get_db_connection() gives a connection
  sweep,             \* the running check: its position, fetched items and bookkeeping
  events             \* what happened so far: <<sweep number, avatar, item id, what>>

sweepVars == <<channel, profiles, connectors, inbox, unread, db_connected, sweep, events>>

VARIABLES
  env,               \* per avatar and connector kind, the state of its credentials
  yaml_profiles,     \* per profile file, what yaml.safe_load gives
  loaded,            \* the keys of app.state.avatars, in insertion order
  registered,        \* per avatar, the kinds in avatar_profile['connectors']
  startup            \* startup_event: its position and the connectors being built

startupVars == <<env, yaml_profiles, loaded, registered, startup>>

VARIABLES
  tool_modules,      \* per tool file, what importing its module gives
  registry,          \* ToolManager.tools: name -> the entry registered
  loader             \* _load_tools: its position and how often it was called

toolVars == <<tool_modules, registry, loader>>

VARIABLES
  db_up,             \* get_db_connection() gives a connection
  chat_history,      \* the rows of table chat_history, in insertion order
  email_history,     \* the rows of table email_history, in insertion order
  db_now,            \* the database clock
  txn_start,         \* when the open transaction began (0: none is open)
  latest,            \* the row appended last, and its table
  last_read          \* the last history read: its conversation, limit, time and result

histVars == <<db_up, chat_history, email_history, db_now, txn_start, latest, last_read>>

VARIABLES
  client_ready,        \* DiscordConnector.client is there and is_ready()
  text_channels,       \* per text channel, its last message (what history(limit=1) gives)
  posted,              \* the message ids given out so far
  processed_messages,  \* DiscordConnector.processed_messages
  fetches,             \* per caller, its fetch_updates call: position, channel, message, updates
  returned             \* the message ids the finished fetch_updates calls returned, in order

discordVars ==
  <<client_ready, text_channels, posted, processed_messages, fetches, returned>>

\* The variables the Discord connector leaves alone.
discordOthers ==
  <<genVars, chatVars, gateVars, filterVars, ragVars, busVars, sweepVars, startupVars,
    toolVars, histVars>>

vars ==
  <<genVars, chatVars, gateVars, filterVars, ragVars, busVars, sweepVars, startupVars,
    toolVars, histVars, discordVars>>

\* The variables _generate_response leaves alone.
genOthers ==
  <<chatVars, gateVars, filterVars, ragVars, busVars, sweepVars, startupVars,
    toolVars, histVars, discordVars>>

\* The variables _chat_completion leaves alone.
chatOthers ==
  <<genVars, gateVars, filterVars, ragVars, busVars, sweepVars, startupVars,
    toolVars, histVars, discordVars>>

\* The variables is_avatar_active leaves alone.
gateOthers ==
  <<genVars, chatVars, filterVars, ragVars, busVars, sweepVars, startupVars,
    toolVars, histVars, discordVars>>

\* The variables should_reply_to_email leaves alone, the backend call apart.
filterOthers ==
  <<genVars, gateVars, ragVars, busVars, sweepVars, startupVars,
    toolVars, histVars, discordVars>>

\* The variables the event bus leaves alone.
busOthers ==
  <<genVars, chatVars, gateVars, filterVars, ragVars, sweepVars, startupVars,
    toolVars, histVars, discordVars>>

\* The variables the context retrieval leaves alone.
ragOthers ==
  <<genVars, chatVars, gateVars, filterVars, busVars, sweepVars, startupVars,
    toolVars, histVars, discordVars>>

\* The variables a channel check leaves alone.
sweepOthers ==
  <<genVars, chatVars, gateVars, filterVars, ragVars, busVars, startupVars,
    toolVars, histVars, discordVars>>

\* The variables startup_event leaves alone.
startupOthers ==
  <<genVars, chatVars, gateVars, filterVars, ragVars, busVars, sweepVars,
    toolVars, histVars, discordVars>>

\* The variables _load_tools leaves alone.
toolOthers ==
  <<genVars, chatVars, gateVars, filterVars, ragVars, busVars, sweepVars, startupVars,
    histVars, discordVars>>

\* The variables the history functions of db.py leave alone.
histOthers ==
  <<genVars, chatVars, gateVars, filterVars, ragVars, busVars, sweepVars, startupVars,
    toolVars, discordVars>>

\* Profiles: the effective engine, whether an api_base is configured (in the
\* profile or as the process default) and the tool allowlist.
Profiles ==
  [llm_engine : {"openai_compatible", "ollama"},
   llm_api_base : BOOLEAN,
   tools : {{}, {"calculator", "ghost_tool"}}]

NoMessage == Message("none", None, Absent, Absent, <<>>)

Pending == [kind |-> "pending", value |-> None]

\* ------------------------------------------------------------- _get_llm_config

\* _get_llm_config: the engine of the resolved configuration, or ValueError
\* when the engine is openai_compatible and no api_base is configured.
get_llm_config(profile) ==
  IF profile.llm_engine = "openai_compatible"
  THEN IF ~profile.llm_api_base THEN "ValueError" ELSE "openai_compatible"
  ELSE "ollama"

\* ------------------------------------------------------------- _generate_response

InitGen ==
  /\ avatar_profile \in Profiles
  /\ pc = "start"
  /\ llm_conf = "unset"
  /\ tool_definitions = {}
  /\ messages = <<>>
  /\ chat_calls = <<>>
  /\ response_message = NoMessage
  /\ i = 1
  /\ executions = <<>>
  /\ final_response = NoMessage
  /\ retval = Pending

\* One _chat_completion call: the tool schemas passed (empty: None), the
\* message list sent and whether the call returned a reply or raised.
ChatCall(msgs, tls, outcome) == [tools |-> tls, messages |-> msgs, outcome |-> outcome]

\* Lines 128-145: the configuration is resolved outside the try block, so its
\* ValueError leaves _generate_response; then the prompt and the tool
\* definitions are built.
Prepare ==
  /\ pc = "start"
  /\ LET conf == get_llm_config(avatar_profile)
     IN /\ llm_conf' = conf
        /\ IF conf = "ValueError"
           THEN /\ pc' = "done"
                /\ retval' = [kind |-> "raise", value |-> <<"ValueError">>]
                /\ UNCHANGED <<messages, tool_definitions>>
           ELSE /\ pc' = "propose"
                /\ messages' = <<Message("user", <<"prompt">>, Absent, Absent, <<>>)>>
                /\ tool_definitions' =
                     IF avatar_profile.tools # {} /\ conf = "openai_compatible"
                     THEN get_tool_definitions(avatar_profile.tools)
                     ELSE {}
                /\ UNCHANGED retval
  /\ UNCHANGED <<avatar_profile, chat_calls, response_message, i, executions, final_response>>
  /\ UNCHANGED genOthers

\* Line 185-187: any exception inside the try block gives the fallback text.
Fallback == [kind |-> "return", value |-> FALLBACK]

\* Line 152 taking every reply for a tool request.
wants_tool_call_always(reply) == TRUE

\* Line 152: whether the reply asks for tools (a non-empty tool_calls list).
wants_tool_call(reply) == reply.tool_calls # <<>>

\* Line 183: what is returned for a reply without tool calls.
propose_result(reply) == [kind |-> "return", value |-> reply.content]

\* Lines 148-156, 179-183: the first backend call answers.
ProposeReturns ==
  /\ pc = "propose"
  /\ chat_calls' = Append(chat_calls, ChatCall(messages, tool_definitions, "reply"))
  /\ \E reply \in ProposeReplies :
       /\ response_message' = reply
       /\ IF wants_tool_call(reply)
          THEN /\ messages' = Append(messages, reply)
               /\ pc' = IF Len(reply.tool_calls) >= 1 THEN "execute" ELSE "finalize"
               /\ UNCHANGED retval
          ELSE /\ pc' = "done"
               /\ retval' = propose_result(reply)
               /\ UNCHANGED messages
  /\ UNCHANGED <<avatar_profile, llm_conf, tool_definitions, i, executions, final_response>>
  /\ UNCHANGED genOthers

\* Line 148 raising: the first backend call fails.
ProposeFails ==
  /\ pc = "propose"
  /\ chat_calls' = Append(chat_calls, ChatCall(messages, tool_definitions, "error"))
  /\ pc' = "done"
  /\ retval' = Fallback
  /\ UNCHANGED <<avatar_profile, llm_conf, tool_definitions, messages,
                 response_message, i, executions, final_response>>
  /\ UNCHANGED genOthers

\* Lines 157-169, one iteration of the loop over tool_calls: the exception
\* that leaves the iteration ("none" when it completes), the turn it appends
\* and whether an executable's body ran.
ToolCallStep(tool_call, outcome) ==
  LET function_name == tool_call.function.name
      function_args == json_loads(tool_call.function.arguments)
  IN IF function_args.type = "JSONDecodeError"
     THEN [exc |-> "none", ran |-> FALSE,
           append |-> <<Message("tool", <<"Error: Invalid arguments">>, Absent, Absent, <<>>)>>]
     ELSE IF function_args.type # "dict"
     THEN \* ** applied to a value that is no mapping
          [exc |-> "TypeError", ran |-> FALSE, append |-> <<>>]
     ELSE LET r == execute_tool(function_name, function_args.keys, outcome)
          IN IF r.exc # "none"
             THEN [exc |-> r.exc, ran |-> r.ran, append |-> <<>>]
             ELSE IF ~json_encodable(r.value)
             THEN [exc |-> "TypeError", ran |-> r.ran, append |-> <<>>]
             ELSE [exc |-> "none", ran |-> r.ran,
                   append |-> <<Message("tool", json_dumps(r.value), tool_call.id,
                                        function_name, <<>>)>>]

\* Lines 156-169: the next requested call is handled.
ExecuteToolCall ==
  /\ pc = "execute"
  /\ \E outcome \in ToolOutcomes :
       LET tool_call == response_message.tool_calls[i]
           step == ToolCallStep(tool_call, outcome)
       IN /\ executions' =
               IF step.ran
               THEN Append(executions, [id |-> tool_call.id, name |-> tool_call.function.name,
                                        outcome |-> outcome])
               ELSE executions
          /\ messages' = messages \o step.append
          /\ IF step.exc # "none"
             THEN /\ pc' = "done"
                  /\ retval' = Fallback
                  /\ UNCHANGED i
             ELSE /\ i' = i + 1
                  /\ pc' = IF i + 1 > Len(response_message.tool_calls)
                           THEN "finalize" ELSE "execute"
                  /\ UNCHANGED retval
  /\ UNCHANGED <<avatar_profile, llm_conf, tool_definitions, chat_calls, response_message,
                 final_response>>
  /\ UNCHANGED genOthers

\* Line 173: the instruction turn is appended.
WithInstruction(msgs) == Append(msgs, Message("user", final_instruction, Absent, Absent, <<>>))

\* Line 177 passing the tool schemas again.
finalize_tools_again(definitions) == definitions

\* Line 177: the tool schemas passed to the second backend call (none).
finalize_tools(definitions) == {}

\* Line 178: what is returned after the second backend call.
finalize_result(reply) == [kind |-> "return", value |-> reply.content]

\* Lines 171-178: the second backend call answers; its content is returned.
FinalizeReturns ==
  /\ pc = "finalize"
  /\ messages' = WithInstruction(messages)
  /\ chat_calls' = Append(chat_calls,
                          ChatCall(messages', finalize_tools(tool_definitions), "reply"))
  /\ \E reply \in FinalizeReplies :
       /\ final_response' = reply
       /\ retval' = finalize_result(reply)
  /\ pc' = "done"
  /\ UNCHANGED <<avatar_profile, llm_conf, tool_definitions, response_message, i, executions>>
  /\ UNCHANGED genOthers

\* Line 177 raising: the second backend call fails.
FinalizeFails ==
  /\ pc = "finalize"
  /\ messages' = WithInstruction(messages)
  /\ chat_calls' = Append(chat_calls,
                          ChatCall(messages', finalize_tools(tool_definitions), "error"))
  /\ retval' = Fallback
  /\ pc' = "done"
  /\ UNCHANGED <<avatar_profile, llm_conf, tool_definitions, response_message, i, executions,
                 final_response>>
  /\ UNCHANGED genOthers

NextGen ==
  \/ Prepare
  \/ ProposeReturns
  \/ ProposeFails
  \/ ExecuteToolCall
  \/ FinalizeReturns
  \/ FinalizeFails

\* ------------------------------------------------------------- _chat_completion

\* What the filter model may write, as sequences of characters.
FilterOutputs ==
  {<<"R", "E", "P", "L", "Y">>,
   <<"I", "G", "N", "O", "R", "E">>,
   <<"r", "e", "p", "l", "y">>,
   <<"i", "g", "n", "o", "r", "e">>,
   <<" ", "R", "e", "p", "l", "y", "\n">>,
   <<"R", "E", "P", "L", "Y", ".">>,
   <<"N", "O", " ", "R", "E", "P", "L", "Y">>,
   <<"R", "E", "P", "L", "I", "E", "D">>,
   <<"R", "E", " ", "P", "L", "Y">>,
   <<"\n", "I", "g", "n", "o", "r", "e", ".", " ">>,
   <<" ">>,
   <<>>}

\* The choices a well-formed response body carries: one assistant message.
Choices ==
  {[message |-> Message("assistant", c, Absent, Absent, <<>>)] :
     c \in ReplyTexts \cup FilterOutputs}

NoChoice == [message |-> NoMessage]

\* What requests.post gives: a transport error (ConnectionError, Timeout), or
\* an HTTP response with its status, what the server's error body complains
\* about, and whether the body is JSON holding choices[0].
HttpResponses ==
  {[kind |-> "transport_error", status_code |-> 0, complaint |-> "none",
    well_formed |-> FALSE, choice |-> NoChoice]}
  \cup {[kind |-> "http", status_code |-> 200, complaint |-> "none",
         well_formed |-> TRUE, choice |-> ch] : ch \in Choices}
  \cup {[kind |-> "http", status_code |-> 200, complaint |-> "none",
         well_formed |-> FALSE, choice |-> NoChoice]}
  \cup {[kind |-> "http", status_code |-> 400, complaint |-> why,
         well_formed |-> FALSE, choice |-> NoChoice] : why \in {"tools", "messages"}}
  \cup {[kind |-> "http", status_code |-> 422, complaint |-> why,
         well_formed |-> FALSE, choice |-> NoChoice] : why \in {"tools", "messages"}}
  \cup {[kind |-> "http", status_code |-> 500, complaint |-> "none",
         well_formed |-> FALSE, choice |-> NoChoice]}

\* What ollama.chat gives: a message, or an exception.
OllamaResponses ==
  {[kind |-> "ollama", status_code |-> 0, complaint |-> "none",
    well_formed |-> TRUE, choice |-> ch] : ch \in Choices}
  \cup {[kind |-> "ollama_error", status_code |-> 0, complaint |-> "none",
         well_formed |-> FALSE, choice |-> NoChoice]}

\* The llm_config arguments: the engine and whether an api_key is set.
LlmConfigs == [engine : {"openai_compatible", "ollama"}, api_key : BOOLEAN]

IdleChat ==
  /\ cc_llm_config = [engine |-> "ollama", api_key |-> FALSE]
  /\ cc_tools = {}
  /\ cc_pc = "idle"
  /\ payload = {}
  /\ requests = <<>>
  /\ responses = <<>>
  /\ cc_retval = Pending

InitChat ==
  /\ cc_llm_config \in LlmConfigs
  /\ cc_tools \in {{}, {"calculator"}, {"calculator", "wikipedia"}}
  /\ cc_pc = "call"
  /\ payload = {}
  /\ requests = <<>>
  /\ responses = <<>>
  /\ cc_retval = Pending

\* One request as sent: where to, the payload's keys, the tool schemas in it
\* and whether an Authorization header goes with it.
Request(to, keys, tls, auth) ==
  [to |-> to, payload |-> keys, tools |-> tls, authorization |-> auth]

\* Lines 64-67: the payload's keys.
build_payload(tls) ==
  {"model", "messages", "temperature"}
    \cup (IF tls # {} THEN {"tools", "tool_choice"} ELSE {})

\* Line 73 retrying on every error status.
retry_on_any_error(response, keys) ==
  response.status_code >= 400 /\ "tools" \in keys

\* Line 73 never taking the retry.
retry_never(response, keys) == FALSE

\* Line 73: the condition of the retry.
retry_without_tools(response, keys) ==
  response.status_code = 400 /\ "tools" \in keys

\* Lines 75-76: the payload of the retry.
strip_tools(keys) == keys \ {"tools", "tool_choice"}

\* Lines 79-80: raise_for_status and response.json()['choices'][0].
finish(response) ==
  IF response.kind = "transport_error"
  THEN [kind |-> "raise", value |-> <<"RequestException">>]
  ELSE IF response.status_code >= 400
  THEN [kind |-> "raise", value |-> <<"HTTPError">>]
  ELSE IF ~response.well_formed
  THEN [kind |-> "raise", value |-> <<"KeyError">>]
  ELSE [kind |-> "return", value |-> response.choice.message.content]

\* Lines 58-70: the remote engine's first request is sent.
SendRequest ==
  /\ cc_pc = "call"
  /\ cc_llm_config.engine = "openai_compatible"
  /\ payload' = build_payload(cc_tools)
  /\ requests' = Append(requests, Request("chat/completions", payload',
                                          IF "tools" \in payload' THEN cc_tools ELSE {},
                                          cc_llm_config.api_key))
  /\ cc_pc' = "first"
  /\ UNCHANGED <<cc_llm_config, cc_tools, responses, cc_retval>>
  /\ UNCHANGED chatOthers

\* Lines 70-83: the first response arrives; a 400 answer to a payload holding
\* tools sends the retry, anything else ends the call.
FirstResponse ==
  /\ cc_pc = "first"
  /\ \E response \in HttpResponses :
       /\ responses' = Append(responses, response)
       /\ IF response.kind = "http" /\ retry_without_tools(response, payload)
          THEN /\ payload' = strip_tools(payload)
               /\ requests' = Append(requests, Request("chat/completions", payload', {},
                                                       cc_llm_config.api_key))
               /\ cc_pc' = "retry"
               /\ UNCHANGED cc_retval
          ELSE /\ cc_retval' = finish(response)
               /\ cc_pc' = "done"
               /\ UNCHANGED <<payload, requests>>
  /\ UNCHANGED <<cc_llm_config, cc_tools>>
  /\ UNCHANGED chatOthers

\* Lines 77-83: the retry's response arrives and ends the call.
RetryResponse ==
  /\ cc_pc = "retry"
  /\ \E response \in HttpResponses :
       /\ responses' = Append(responses, response)
       /\ cc_retval' = finish(response)
  /\ cc_pc' = "done"
  /\ UNCHANGED <<cc_llm_config, cc_tools, payload, requests>>
  /\ UNCHANGED chatOthers

\* Lines 87-89 handing the tool schemas to ollama.chat.
ollama_request_with_tools(tls) ==
  Request("ollama.chat",
          {"model", "messages", "options"} \cup (IF tls # {} THEN {"tools"} ELSE {}),
          tls, FALSE)

\* Lines 87-89: ollama.chat is given the model, the messages and the options;
\* the tools argument of _chat_completion is not used on this path.
ollama_request(tls) ==
  Request("ollama.chat", {"model", "messages", "options"}, {}, FALSE)

\* Lines 85-90: the local engine is called without tools.
OllamaChat ==
  /\ cc_pc = "call"
  /\ cc_llm_config.engine # "openai_compatible"
  /\ requests' = Append(requests, ollama_request(cc_tools))
  /\ \E response \in OllamaResponses :
       /\ responses' = Append(responses, response)
       /\ cc_retval' = IF response.kind = "ollama_error"
                       THEN [kind |-> "raise", value |-> <<"ResponseError">>]
                       ELSE [kind |-> "return", value |-> response.choice.message.content]
  /\ cc_pc' = "done"
  /\ UNCHANGED <<cc_llm_config, cc_tools, payload>>
  /\ UNCHANGED chatOthers

NextChat ==
  \/ SendRequest
  \/ FirstResponse
  \/ RetryResponse
  \/ OllamaChat

\* ------------------------------------------------------------- is_avatar_active

\* dict.get(key, default).
dict_get(d, k, default) == IF k \in DOMAIN d THEN d[k] ELSE default

\* Schedule entries: days are weekdays (Monday is 0), hours are 0..24. A key
\* an entry lacks is read with its default.
WorkWeek == [days |-> {0, 1, 2, 3, 4}, start_hour |-> 9, end_hour |-> 17]
Weekend == [days |-> {5, 6}, start_hour |-> 10, end_hour |-> 23]
Evening == [days |-> {2, 5}, start_hour |-> 17, end_hour |-> 24]
NoDays == [start_hour |-> 9, end_hour |-> 17]
NoHours == [days |-> {2}]
Inverted == [days |-> {2}, start_hour |-> 20, end_hour |-> 8]

ScheduleEntries == {WorkWeek, Weekend, Evening, NoDays, NoHours, Inverted}

\* The categories the profiles define, in the order a schedule holds its keys.
CategoryOrder == <<"work", "social">>

Categories == {CategoryOrder[n] : n \in 1..Len(CategoryOrder)}

\* The schedules: any entries for any of the categories, the empty mapping included.
Schedules == UNION {[S -> ScheduleEntries] : S \in SUBSET Categories}

\* The profiles as is_avatar_active reads them: without a schedule key, or with one.
GateProfiles == {<<>>} \cup {[schedule |-> sch] : sch \in Schedules}

\* The activity_types arguments: None, or a list of category names ("sleep"
\* is a category no schedule defines).
ActivityTypes ==
  {[is_none |-> TRUE, items |-> <<>>]}
  \cup {[is_none |-> FALSE, items |-> l] :
          l \in {<<>>, <<"work">>, <<"social">>, <<"sleep">>, <<"work", "social">>,
                 <<"sleep", "work">>, <<"social", "sleep">>}}

\* The times sampled: weekdays and hours around the entries' limits.
Times == [weekday : {0, 2, 4, 5, 6}, hour : {0, 8, 9, 10, 16, 17, 20, 23}]

\* Line 43-44 taking only a missing schedule for "no schedule".
no_schedule_missing_only(profile) == "schedule" \notin DOMAIN profile

\* Lines 43-44: `not schedule`, true for a missing and for an empty schedule.
no_schedule(profile) ==
  "schedule" \notin DOMAIN profile \/ DOMAIN profile.schedule = {}

\* schedule.keys().
keys(schedule) == SelectSeq(CategoryOrder, LAMBDA c : c \in DOMAIN schedule)

\* Lines 51-52 replacing only None by the schedule's keys.
effective_types_none_only(types, schedule) ==
  IF types.is_none THEN keys(schedule) ELSE types.items

\* Lines 51-52: `not activity_types`, true for None and for the empty list.
effective_types(types, schedule) ==
  IF types.is_none \/ types.items = <<>> THEN keys(schedule) ELSE types.items

\* Lines 57-60 with the end hour inside the window.
window_open_closed_end(details, now) ==
  /\ now.weekday \in dict_get(details, "days", {})
  /\ dict_get(details, "start_hour", 0) <= now.hour
  /\ now.hour <= dict_get(details, "end_hour", 24)

\* Lines 57-60: is_day and is_hour.
window_open(details, now) ==
  LET is_day == now.weekday \in dict_get(details, "days", {})
      is_hour == /\ dict_get(details, "start_hour", 0) <= now.hour
                 /\ now.hour < dict_get(details, "end_hour", 24)
  IN is_day /\ is_hour

\* Lines 54-63: the loop over the categories, returning at the first open window.
RECURSIVE any_window_open(_, _, _)
any_window_open(types, schedule, now) ==
  IF types = <<>> THEN FALSE
  ELSE IF Head(types) \in DOMAIN schedule /\ window_open(schedule[Head(types)], now)
  THEN TRUE
  ELSE any_window_open(Tail(types), schedule, now)

\* Lines 41-63.
is_avatar_active(profile, types, now) ==
  IF no_schedule(profile)
  THEN TRUE
  ELSE any_window_open(effective_types(types, profile.schedule), profile.schedule, now)

IdleGate ==
  /\ gate_profile = <<>>
  /\ activity_types = [is_none |-> TRUE, items |-> <<>>]
  /\ now_utc = [weekday |-> 0, hour |-> 0]
  /\ gate_pc = "idle"
  /\ gate_result = FALSE

InitGate ==
  /\ gate_profile \in GateProfiles
  /\ activity_types \in ActivityTypes
  /\ now_utc \in Times
  /\ gate_pc = "call"
  /\ gate_result = FALSE

\* One call of is_avatar_active.
IsAvatarActive ==
  /\ gate_pc = "call"
  /\ gate_result' = is_avatar_active(gate_profile, activity_types, now_utc)
  /\ gate_pc' = "done"
  /\ UNCHANGED <<gate_profile, activity_types, now_utc>>
  /\ UNCHANGED gateOthers

NextGate == IsAvatarActive

\* ------------------------------------------------------------- should_reply_to_email

\* str.strip(): the characters it removes from both ends.
Whitespace == {" ", "\n"}

RECURSIVE lstrip(_)
lstrip(s) == IF s # <<>> /\ Head(s) \in Whitespace THEN lstrip(Tail(s)) ELSE s

RECURSIVE rstrip(_)
rstrip(s) ==
  IF s # <<>> /\ s[Len(s)] \in Whitespace THEN rstrip(SubSeq(s, 1, Len(s) - 1)) ELSE s

strip(s) == rstrip(lstrip(s))

\* str.upper(), character by character.
UpperCase ==
  [r |-> "R", e |-> "E", p |-> "P", l |-> "L", y |-> "Y",
   i |-> "I", g |-> "G", n |-> "N", o |-> "O"]

\* Line 120 leaving the case as it is.
upper_unchanged(s) == s

upper(s) == [k \in 1..Len(s) |-> IF s[k] \in DOMAIN UpperCase THEN UpperCase[s[k]] ELSE s[k]]

\* `sub in s` for strings.
contains(s, sub) ==
  \E k \in 0..(Len(s) - Len(sub)) : SubSeq(s, k + 1, k + Len(sub)) = sub

REPLY == <<"R", "E", "P", "L", "Y">>

\* Lines 123-125 letting the exception leave the function.
filter_reraise(exc) == [kind |-> "raise", value |-> FALSE]

\* Lines 123-125: any exception of the try block is logged and False returned.
filter_except(exc) == [kind |-> "return", value |-> FALSE]

\* Lines 119-125: the decision taken from what _chat_completion gave. A
\* content of None has no strip(): AttributeError.
should_reply_result(ret) ==
  IF ret.kind = "raise" THEN filter_except(ret.value)
  ELSE IF ret.value = None THEN filter_except(<<"AttributeError">>)
  ELSE [kind |-> "return", value |-> contains(upper(strip(ret.value)), REPLY)]

\* The process defaults: engine, whether an api_base and an api_key are set.
FilterDefaults == [llm_engine : {"openai_compatible", "ollama"},
                   llm_api_base : BOOLEAN, llm_api_key : BOOLEAN]

FilterPending == [kind |-> "pending", value |-> FALSE]

IdleFilter ==
  /\ filter_defaults = [llm_engine |-> "ollama", llm_api_base |-> FALSE, llm_api_key |-> FALSE]
  /\ filter_pc = "idle"
  /\ filter_retval = FilterPending

InitFilter ==
  /\ filter_defaults \in FilterDefaults
  /\ filter_pc = "start"
  /\ filter_retval = FilterPending

\* Lines 106-119: the prompt is built, the configuration resolved inside the
\* try block (its ValueError is caught), and _chat_completion called with one
\* user message and no tools.
FilterCall ==
  /\ filter_pc = "start"
  /\ LET conf == get_llm_config(filter_defaults)
     IN IF conf = "ValueError"
        THEN /\ filter_retval' = filter_except(<<"ValueError">>)
             /\ filter_pc' = "done"
             /\ UNCHANGED chatVars
        ELSE /\ cc_llm_config' =
                  [engine |-> conf,
                   api_key |-> conf = "openai_compatible" /\ filter_defaults.llm_api_key]
             /\ cc_tools' = {}
             /\ cc_pc' = "call"
             /\ filter_pc' = "chat"
             /\ UNCHANGED <<payload, requests, responses, cc_retval, filter_retval>>
  /\ UNCHANGED filter_defaults
  /\ UNCHANGED filterOthers

\* Lines 119-125: _chat_completion has ended; the decision is read or the
\* exception caught.
FilterDecide ==
  /\ filter_pc = "chat"
  /\ cc_pc = "done"
  /\ filter_retval' = should_reply_result(cc_retval)
  /\ filter_pc' = "done"
  /\ UNCHANGED <<filter_defaults, chatVars>>
  /\ UNCHANGED filterOthers

\* The steps of one call. The request carries no tools, so the retry of
\* _chat_completion (line 73) is never taken and RetryResponse has no part.
NextFilter ==
  \/ FilterCall
  \/ SendRequest
  \/ FirstResponse
  \/ OllamaChat
  \/ FilterDecide

\* ------------------------------------------------------------- search_rag_documents

\* The knowledge stores: chunks 1..n, each at a distance from the query embedding.
Stores == UNION {[1..n -> 0..MaxDistance] : n \in 0..MaxDocs}

\* The distance thresholds: not configured (None), or a number.
Thresholds ==
  {[is_none |-> TRUE, value |-> 0]}
  \cup {[is_none |-> FALSE, value |-> t] : t \in 0..MaxDistance}

\* One row of the result: content and distance (metadata left out).
Row(store, d) == [content |-> <<"chunk", d>>, distance |-> store[d]]

\* Lines 229-232 keeping the chunks at the threshold too.
matching_inclusive(store, threshold) ==
  {d \in DOMAIN store : threshold.is_none \/ store[d] <= threshold.value}

\* Lines 229-232: WHERE distance < threshold, when a threshold is given.
matching(store, threshold) ==
  {d \in DOMAIN store : threshold.is_none \/ store[d] < threshold.value}

\* Line 234, ORDER BY distance: every order of the chunks by non-decreasing
\* distance (chunks at equal distance come in any order).
RECURSIVE ordered(_, _)
ordered(store, ids) ==
  IF ids = {} THEN {<<>>}
  ELSE UNION {{<<d>> \o rest : rest \in ordered(store, ids \ {d})} :
                d \in {x \in ids : \A y \in ids : store[x] <= store[y]}}

\* Line 234 without the LIMIT.
take_all(rows, limit) == rows

\* Line 234, LIMIT: the first `limit` rows.
take(rows, limit) == SubSeq(rows, 1, IF limit < Len(rows) THEN limit ELSE Len(rows))

\* Lines 225-240: the lists of rows the query may give.
search_rows(store, limit, threshold) ==
  {[k \in 1..Len(o) |-> Row(store, o[k])] :
     o \in {take(full, limit) : full \in ordered(store, matching(store, threshold))}}

NoRows == [kind |-> "None", rows |-> <<>>]

\* db_operation (lines 52-74) around search_rag_documents: without a
\* connection the annotated return type is called (list()); an exception of the
\* query is logged and the wrapper returns None.
search_rag_documents(state, embedding, store, limit, threshold) ==
  IF state = "no_connection" THEN {[kind |-> "list", rows |-> <<>>]}
  ELSE IF state = "query_error" \/ embedding # "vector" THEN {NoRows}
  ELSE {[kind |-> "list", rows |-> r] : r \in search_rows(store, limit, threshold)}

\* ------------------------------------------------------------- _get_rag_context

\* The rag_query values: None, the empty text, a text.
RagQueries == {None, <<>>, <<"question">>}

\* `not query`.
no_query(query) == query \in {None, <<>>}

\* What generate_embedding gives: a vector, a value that is no vector (the
\* store's query fails on it), or an exception.
EmbeddingOutcomes == {"vector", "unusable", "raises"}

\* Lines 101-103 letting the exception leave _get_rag_context.
rag_reraise(exc) == [kind |-> "raise", context |-> <<>>]

\* Lines 101-103: any exception is logged and "" returned.
rag_except(exc) == [kind |-> "return", context |-> <<>>]

\* Lines 97-103: the contents joined when there are results, else "".
rag_return(res) ==
  [kind |-> "return",
   context |-> IF res.kind = "list" /\ res.rows # <<>>
               THEN [k \in 1..Len(res.rows) |-> res.rows[k].content]
               ELSE <<>>]

NoPrompt == [built |-> FALSE, rag_context |-> <<>>]

IdleRag ==
  /\ rag_query = None
  /\ rag_limit = RagLimit
  /\ rag_threshold = [is_none |-> TRUE, value |-> 0]
  /\ documents = <<>>
  /\ db_state = "no_connection"
  /\ rag_pc = "idle"
  /\ embed_calls = 0
  /\ store_calls = 0
  /\ query_embedding = "unset"
  /\ results = NoRows
  /\ rag_context = <<>>
  /\ prompt = NoPrompt

\* _generate_response has resolved its configuration and loaded its template
\* (lines 128-129) and reads the rag_query.
InitRag ==
  /\ rag_query \in RagQueries
  /\ rag_limit \in 1..RagLimit
  /\ rag_threshold \in Thresholds
  /\ documents \in Stores
  /\ db_state \in {"no_connection", "query_error", "connected"}
  /\ rag_pc = "start"
  /\ embed_calls = 0
  /\ store_calls = 0
  /\ query_embedding = "unset"
  /\ results = NoRows
  /\ rag_context = <<>>
  /\ prompt = NoPrompt

\* Where a _get_rag_context result leads: to the prompt, or out of
\* _generate_response (line 132 is outside its try block).
RagEnds(ret) ==
  /\ rag_context' = ret.context
  /\ rag_pc' = IF ret.kind = "raise" THEN "raised" ELSE "prompt"

\* Lines 131-132 and 93: no query, no retrieval.
RagSkip ==
  /\ rag_pc = "start"
  /\ no_query(rag_query)
  /\ rag_context' = <<>>
  /\ rag_pc' = "prompt"
  /\ UNCHANGED <<rag_query, rag_limit, rag_threshold, documents, db_state, embed_calls,
                 store_calls, query_embedding, results, prompt>>
  /\ UNCHANGED ragOthers

\* Line 95: generate_embedding returns or raises.
Embed ==
  /\ rag_pc = "start"
  /\ ~no_query(rag_query)
  /\ embed_calls' = embed_calls + 1
  /\ \E outcome \in EmbeddingOutcomes :
       IF outcome = "raises"
       THEN /\ RagEnds(rag_except(<<"ResponseError">>))
            /\ UNCHANGED query_embedding
       ELSE /\ query_embedding' = outcome
            /\ rag_pc' = "search"
            /\ UNCHANGED rag_context
  /\ UNCHANGED <<rag_query, rag_limit, rag_threshold, documents, db_state, store_calls,
                 results, prompt>>
  /\ UNCHANGED ragOthers

\* Lines 96-103: the store is searched and the context returned.
Search ==
  /\ rag_pc = "search"
  /\ store_calls' = store_calls + 1
  /\ \E res \in search_rag_documents(db_state, query_embedding, documents,
                                      rag_limit, rag_threshold) :
       /\ results' = res
       /\ RagEnds(rag_return(res))
  /\ UNCHANGED <<rag_query, rag_limit, rag_threshold, documents, db_state, embed_calls,
                 query_embedding, prompt>>
  /\ UNCHANGED ragOthers

\* Lines 133-148: the prompt is formatted with the context and the first
\* backend call is reached.
BuildPrompt ==
  /\ rag_pc = "prompt"
  /\ prompt' = [built |-> TRUE, rag_context |-> rag_context]
  /\ rag_pc' = "backend_call"
  /\ UNCHANGED <<rag_query, rag_limit, rag_threshold, documents, db_state, embed_calls,
                 store_calls, query_embedding, results, rag_context>>
  /\ UNCHANGED ragOthers

NextRag ==
  \/ RagSkip
  \/ Embed
  \/ Search
  \/ BuildPrompt

\* ------------------------------------------------------------- InternalEventBus

\* The subscriber callbacks.
Callbacks == {"cbA", "cbB"}

\* The avatar ids a message may name as its recipient; "" is no recipient
\* (None and "" are both falsy at line 45).
Recipients == {"", "x"}

\* Line 46: recipient_key = f"to_{recipient_avatar_id}".
RecipientKeyOf == [x |-> "to_x"]

recipient_key(message) == RecipientKeyOf[message.recipient_avatar_id]

\* The message types published.
MessageTypes == {"t"}

\* The keys callbacks are registered under: a recipient key and a message type.
Keys == {"to_x"} \cup MessageTypes

\* An InternalMessage; id is its rank among the published messages.
InternalMessage(id, recipient, type) ==
  [id |-> id, recipient_avatar_id |-> recipient, message_type |-> type]

NoInternalMessage == InternalMessage(0, "", "")

\* A consumer task. pc: "unborn" (not created), "new" (created, not yet run),
\* "loop" (at the top of the while loop), "waiting" (suspended in queue.get()),
\* "dispatch" (between two callbacks), "callback" (suspended inside a callback),
\* "ended" (cancelled). phase and idx are the list being iterated and how many
\* of its items the iterator has yielded; delivered lists the (key, callback)
\* invocations of the current message; logged_error tells whether a callback
\* of the current message raised; stable holds the (key, callback)
\* registrations in place since the message was taken from the queue, and
\* taken_at how many subscribe and unsubscribe calls had been made by then.
NoTask ==
  [pc |-> "unborn", cancel |-> FALSE, message |-> NoInternalMessage, phase |-> "none",
   idx |-> 0, delivered |-> <<>>, logged_error |-> FALSE, stable |-> {}, taken_at |-> 0]

\* The registrations in place.
Registered(subs) == {<<key, cb>> \in Keys \X Callbacks : \E n \in 1..Len(subs[key]) : subs[key][n] = cb}

\* list.remove(callback): the list without the first occurrence.
RECURSIVE remove(_, _)
remove(list, cb) ==
  IF list = <<>> THEN <<>>
  ELSE IF Head(list) = cb THEN Tail(list)
  ELSE <<Head(list)>> \o remove(Tail(list), cb)

\* The positions at which a task is mid-step: nothing else runs then.
MidStep == {"loop", "dispatch"}

\* No task other than t is in the middle of a step.
OthersSuspended(t) == \A u \in DOMAIN tasks : u # t => tasks[u].pc \notin MidStep

\* Every task is suspended, ended or not created: other code may run.
AllSuspended == \A u \in DOMAIN tasks : tasks[u].pc \notin MidStep

\* Lines 25-28: the bus after construction.
InitBus ==
  /\ subscribers = [key \in Keys |-> <<>>]
  /\ queue = <<>>
  /\ processing_task = 0
  /\ tasks = [t \in 1..MaxTasks |-> NoTask]
  /\ published = 0
  /\ dispatched = <<>>
  /\ registrations = 0

\* Lines 30-32.
Subscribe ==
  /\ AllSuspended
  /\ registrations < MaxRegistrations
  /\ registrations' = registrations + 1
  /\ \E key \in Keys, cb \in Callbacks :
       /\ Len(subscribers[key]) < MaxSubscriptions
       /\ subscribers' = [subscribers EXCEPT ![key] = Append(@, cb)]
  /\ UNCHANGED <<queue, processing_task, tasks, published, dispatched>>
  /\ UNCHANGED busOthers

\* Lines 34-37.
Unsubscribe ==
  /\ AllSuspended
  /\ registrations < MaxRegistrations
  /\ registrations' = registrations + 1
  /\ \E key \in Keys, cb \in Callbacks :
       /\ <<key, cb>> \in Registered(subscribers)
       /\ subscribers' = [subscribers EXCEPT ![key] = remove(@, cb)]
  /\ tasks' = [t \in DOMAIN tasks |->
                 [tasks[t] EXCEPT !.stable = @ \cap Registered(subscribers')]]
  /\ UNCHANGED <<queue, processing_task, published, dispatched>>
  /\ UNCHANGED busOthers

\* Lines 39-41: the queue is unbounded, put never waits.
Publish ==
  /\ AllSuspended
  /\ published < MaxMessages
  /\ published' = published + 1
  /\ \E recipient \in Recipients, type \in MessageTypes :
       queue' = Append(queue, InternalMessage(published', recipient, type))
  /\ UNCHANGED <<subscribers, processing_task, tasks, dispatched, registrations>>
  /\ UNCHANGED busOthers

\* Lines 70-73: a task is created unless one is recorded.
StartProcessing ==
  /\ AllSuspended
  /\ processing_task = 0
  /\ \E t \in DOMAIN tasks :
       /\ tasks[t].pc = "unborn"
       /\ \A u \in DOMAIN tasks : u < t => tasks[u].pc # "unborn"
       /\ tasks' = [tasks EXCEPT ![t].pc = "new"]
       /\ processing_task' = t
  /\ UNCHANGED <<subscribers, queue, published, dispatched, registrations>>
  /\ UNCHANGED busOthers

\* stop_processing emptying the queue as well.
StopProcessingDiscards ==
  /\ AllSuspended
  /\ processing_task # 0
  /\ tasks' = [tasks EXCEPT ![processing_task] =
                 [NoTask EXCEPT !.pc = tasks[processing_task].pc, !.cancel = TRUE,
                                !.message = tasks[processing_task].message]]
  /\ processing_task' = 0
  /\ queue' = <<>>
  /\ UNCHANGED <<subscribers, published, dispatched, registrations>>
  /\ UNCHANGED busOthers

\* Lines 75-79: the recorded task is asked to cancel and forgotten; it is not
\* awaited. Of a task asked to cancel only its position and its message matter
\* from here on.
StopProcessing ==
  /\ AllSuspended
  /\ processing_task # 0
  /\ tasks' = [tasks EXCEPT ![processing_task] =
                 [NoTask EXCEPT !.pc = tasks[processing_task].pc, !.cancel = TRUE,
                                !.message = tasks[processing_task].message]]
  /\ processing_task' = 0
  /\ UNCHANGED <<subscribers, queue, published, dispatched, registrations>>
  /\ UNCHANGED busOthers

\* Line 63: a new task runs for the first time and enters the loop.
TaskBegins ==
  \E t \in DOMAIN tasks :
    /\ OthersSuspended(t)
    /\ tasks[t].pc = "new"
    /\ ~tasks[t].cancel
    /\ tasks' = [tasks EXCEPT ![t].pc = "loop"]
    /\ UNCHANGED <<subscribers, queue, processing_task, published, dispatched, registrations>>
    /\ UNCHANGED busOthers

\* The task's record for a message just taken from the queue.
Taking(task, message) ==
  [NoTask EXCEPT !.pc = "dispatch", !.message = message, !.phase = "recipient",
                 !.stable = Registered(subscribers), !.taken_at = registrations]

\* queue.get() that is not resumed by a later put: a task suspended on the
\* empty queue stays suspended.
GetMessageNeverResumed ==
  \E t \in DOMAIN tasks :
    /\ OthersSuspended(t)
    /\ ~tasks[t].cancel
    /\ tasks[t].pc = "loop"
    /\ IF queue = <<>>
       THEN /\ tasks' = [tasks EXCEPT ![t] = [NoTask EXCEPT !.pc = "waiting"]]
            /\ UNCHANGED <<queue, dispatched>>
       ELSE /\ tasks' = [tasks EXCEPT ![t] = Taking(@, Head(queue))]
            /\ queue' = Tail(queue)
            /\ dispatched' = Append(dispatched, Head(queue).id)
    /\ UNCHANGED <<subscribers, processing_task, published, registrations>>
    /\ UNCHANGED busOthers

\* Lines 64-66: queue.get() returns the head of the queue, or suspends the
\* task when the queue is empty; a suspended task resumes with the head once
\* a message is there.
GetMessage ==
  \E t \in DOMAIN tasks :
    /\ OthersSuspended(t)
    /\ ~tasks[t].cancel
    /\ \/ /\ tasks[t].pc = "loop"
          /\ queue = <<>>
          /\ tasks' = [tasks EXCEPT ![t] = [NoTask EXCEPT !.pc = "waiting"]]
          /\ UNCHANGED <<queue, dispatched>>
       \/ /\ tasks[t].pc \in {"loop", "waiting"}
          /\ queue # <<>>
          /\ tasks' = [tasks EXCEPT ![t] = Taking(@, Head(queue))]
          /\ queue' = Tail(queue)
          /\ dispatched' = Append(dispatched, Head(queue).id)
    /\ UNCHANGED <<subscribers, processing_task, published, registrations>>
    /\ UNCHANGED busOthers

\* The list a phase iterates: the recipient key's callbacks when the message
\* names a recipient (lines 45-48), the message type's callbacks (lines 55-56).
phase_list(task) ==
  IF task.phase = "recipient"
  THEN IF task.message.recipient_avatar_id # ""
       THEN subscribers[recipient_key(task.message)]
       ELSE <<>>
  ELSE subscribers[task.message.message_type]

phase_key(task) ==
  IF task.phase = "recipient" THEN recipient_key(task.message) ELSE task.message.message_type

\* Lines 48-50, 56-58: the list iterator yields the item at its index, if the
\* list is that long now, and the callback is invoked; otherwise the loop
\* ends: the type phase follows the recipient phase, task_done (line 68) and
\* the top of the while loop follow the type phase.
NextCallback ==
  \E t \in DOMAIN tasks :
    /\ OthersSuspended(t)
    /\ tasks[t].pc = "dispatch"
    /\ LET task == tasks[t]
           list == phase_list(task)
       IN IF task.idx < Len(list)
          THEN tasks' = [tasks EXCEPT ![t].pc = "callback", ![t].idx = @ + 1,
                           ![t].delivered = Append(@, <<phase_key(task), list[task.idx + 1]>>)]
          ELSE IF task.phase = "recipient"
          THEN tasks' = [tasks EXCEPT ![t].phase = "type", ![t].idx = 0]
          ELSE tasks' = [tasks EXCEPT ![t].pc = "loop"]
    /\ UNCHANGED <<subscribers, queue, processing_task, published, dispatched, registrations>>
    /\ UNCHANGED busOthers

\* Lines 50, 58: the callback returns.
CallbackReturns ==
  \E t \in DOMAIN tasks :
    /\ OthersSuspended(t)
    /\ tasks[t].pc = "callback"
    /\ ~tasks[t].cancel
    /\ tasks' = [tasks EXCEPT ![t].pc = "dispatch"]
    /\ UNCHANGED <<subscribers, queue, processing_task, published, dispatched, registrations>>
    /\ UNCHANGED busOthers

\* Lines 51-52, 59-60 letting the exception leave process_messages: the task ends.
after_failure_propagates(task) == [NoTask EXCEPT !.pc = "ended"]

\* Lines 51-52, 59-60: `except Exception` logs the error and the for loop goes on.
after_failure(task) == [task EXCEPT !.pc = "dispatch", !.logged_error = TRUE]

\* Lines 51-52, 59-60: the callback raises an Exception.
CallbackFails ==
  \E t \in DOMAIN tasks :
    /\ OthersSuspended(t)
    /\ tasks[t].pc = "callback"
    /\ ~tasks[t].cancel
    /\ tasks' = [tasks EXCEPT ![t] = after_failure(@)]
    /\ UNCHANGED <<subscribers, queue, processing_task, published, dispatched, registrations>>
    /\ UNCHANGED busOthers

\* A task asked to cancel resumes with CancelledError, which `except
\* Exception` does not catch: the callback it was suspended in fails and the
\* task ends.
TaskCancelled ==
  \E t \in DOMAIN tasks :
    /\ OthersSuspended(t)
    /\ tasks[t].cancel
    /\ tasks[t].pc \in {"new", "waiting", "callback"}
    /\ tasks' = [tasks EXCEPT ![t] = [NoTask EXCEPT !.pc = "ended"]]
    /\ UNCHANGED <<subscribers, queue, processing_task, published, dispatched, registrations>>
    /\ UNCHANGED busOthers

NextBus ==
  \/ Subscribe
  \/ Unsubscribe
  \/ Publish
  \/ StartProcessing
  \/ StopProcessing
  \/ TaskBegins
  \/ GetMessage
  \/ NextCallback
  \/ CallbackReturns
  \/ CallbackFails
  \/ TaskCancelled

\* ------------------------------------------------------------- channel checks (main.py)

\* The avatars, in the order app.state.avatars holds them.
AvatarOrder == <<"a1", "a2">>

AvatarIds == {AvatarOrder[n] : n \in 1..Len(AvatarOrder)}

\* The checks modelled: scheduled_email_check, scheduled_github_check,
\* scheduled_telegram_check and scheduled_slack_check.
Channels == {"email", "github", "telegram", "slack"}

\* Every check asking for the social windows.
category_social(c) == "social"

\* The category each check passes to is_avatar_active (lines 72, 128, 165, 258).
category(c) == IF c \in {"email", "github"} THEN "work" ELSE "social"

gate_types(c) == [is_none |-> FALSE, items |-> <<category(c)>>]

\* The profiles of the avatars: without a schedule, or working on weekdays and
\* social in the evening.
SweepProfiles == {<<>>, [schedule |-> [work |-> WorkWeek, social |-> Evening]]}

\* The times a check may run at: inside the work window, inside the social one.
SweepTimes == {[weekday |-> 2, hour |-> 10], [weekday |-> 2, hour |-> 17]}

\* The elements of a list.
elements(l) == {l[k] : k \in 1..Len(l)}

\* What fetch_updates returns when the service answers. Slack lists the last
\* messages of every channel that are not the bot's own (slack_connector.py
\* 23-57, nothing is remembered between two calls); the other connectors ask for
\* what the service holds as new (UNSEEN mail, unread notifications, unconfirmed
\* updates).
fetched_list(c, held, new) ==
  IF c = "slack" THEN held ELSE SelectSeq(held, LAMBDA id : id \in new)

\* The outcomes of fetch_updates: the service answers; the request fails (the
\* connector logs and returns nothing); for Telegram, the updates are read and
\* the confirming get_updates(offset = last + 1) fails (telegram_connector.py
\* 70-77: the updates already collected are returned).
FetchOutcomes(c) ==
  IF c = "telegram" THEN {"ok", "fails", "ack_fails"} ELSE {"ok", "fails"}

\* What the service holds as new after fetch_updates: Telegram's updates are
\* confirmed by the fetch itself; mail and notifications are marked later.
unread_after_fetch(c, outcome, new, list) ==
  IF c = "telegram" /\ outcome = "ok" THEN new \ elements(list) ELSE new

\* db_operation (db.py 52-74) around get_chat_history and get_email_history:
\* the rows; list() when there is no connection; None when the query raises.
history_reads(connected) ==
  IF connected
  THEN {[kind |-> "list", rows |-> <<"turn">>], [kind |-> "list", rows |-> <<>>], NoRows}
  ELSE {[kind |-> "list", rows |-> <<>>]}

\* generate_*_reply (generator.py 189-285) up to _generate_response:
\* reversed(history) raises TypeError when the history is None.
history_raises(history) == history.kind = "None"

\* get_thread_details (github_connector.py 58-69): the thread, with or without
\* a comments_url, or {} when the request fails.
ThreadDetails ==
  {<<>>,
   [title |-> "t", body |-> "b"],
   [title |-> "t", body |-> "b", comments_url |-> "u"]}

\* generate_github_comment (generator.py 204-212) reads thread_details['title']
\* and ['body']: KeyError when the lookup gave {}.
details_raise(details) == ~({"title", "body"} \subseteq DOMAIN details)

\* What send_message does with the history once the service took the reply:
\* the Telegram and the Slack connector add it to chat_history
\* (telegram_connector.py 31-38, slack_connector.py 62-69), and db_operation
\* (db.py 52-74) drops the row when there is no connection or the INSERT
\* raises; the mail connector's call is commented out (email_connector.py 103)
\* and the GitHub connector has none (github_connector.py 44-56).
reply_appended(c, success, stored) ==
  c \in {"telegram", "slack"} /\ success /\ stored

\* The outcomes of the INSERT behind send_message.
StoreOutcomes(connected) == IF connected THEN BOOLEAN ELSE {FALSE}

\* The time of a check that has not asked the gate.
NoTime == [weekday |-> 0, hour |-> 0]

NoSweep ==
  [n |-> 0, pc |-> "idle", ai |-> 1, checked_at |-> NoTime, items |-> <<>>,
   ii |-> 1, processed_ids |-> <<>>, ignored_ids |-> <<>>]

\* `continue`, the end of the loop body and the except clause of the avatar's
\* try (lines 118-119, 155-156, 186-187, 279-280) leaving the first avatar for
\* good.
leave_avatar_restart(s) ==
  [NoSweep EXCEPT !.n = s.n, !.pc = "avatar", !.ai = IF s.ai = 1 THEN 2 ELSE 1]

\* `continue`, the end of the loop body and the except clause of the avatar's
\* try (lines 118-119, 155-156, 186-187, 279-280): on to the next avatar.
leave_avatar(s) == [NoSweep EXCEPT !.n = s.n, !.pc = "avatar", !.ai = s.ai + 1]

\* The end of the item loop's body: on to the next fetched item.
next_item(s) == [s EXCEPT !.pc = "item", !.ii = @ + 1]

\* An exception of the item loop reaches the except clause of the avatar's
\* try, which encloses the whole loop (lines 82-119, 137-156, 174-187, 267-280).
after_item_failure(s) == leave_avatar(s)

\* The avatar and the item the check is at.
CurrentAvatar == AvatarOrder[sweep.ai]
CurrentItem == sweep.items[sweep.ii]

Ev(id, what) == <<sweep.n, CurrentAvatar, id, what>>

\* What is remembered of an avatar the check has moved on from: the replies
\* sent and the email_ignored messages published.
settled(log) == {e \in log : e[4] \in {"replied", "ignored"}}

IdleSweep ==
  /\ channel = "email"
  /\ profiles = [a \in AvatarIds |-> <<>>]
  /\ connectors = [a \in AvatarIds |-> FALSE]
  /\ inbox = [a \in AvatarIds |-> <<>>]
  /\ unread = [a \in AvatarIds |-> {}]
  /\ db_connected = FALSE
  /\ sweep = NoSweep
  /\ events = {}

\* An avatar without a connector is skipped whatever its schedule says: it is
\* given none.
InitSweep ==
  /\ channel \in Channels
  /\ profiles \in [AvatarIds -> SweepProfiles]
  /\ connectors \in [AvatarIds -> BOOLEAN]
  /\ \A a \in AvatarIds : connectors[a] \/ profiles[a] = <<>>
  /\ inbox = [a \in AvatarIds |-> <<>>]
  /\ unread = [a \in AvatarIds |-> {}]
  /\ db_connected \in BOOLEAN
  /\ sweep = NoSweep
  /\ events = {}

\* The items the service holds: <<avatar, id>>.
Held == UNION {{<<a, id>> : id \in elements(inbox[a])} : a \in AvatarIds}

\* A new item reaches the service for avatar a. The check reads what the
\* service holds only in fetch_updates, so an arrival during a check is the
\* same as one before it or one after it.
Arrive(a) ==
  /\ sweep.pc = "idle"
  /\ Cardinality(Held) < MaxItems
  /\ LET id == Len(inbox[a]) + 1
     IN /\ inbox' = [inbox EXCEPT ![a] = Append(@, id)]
        /\ unread' = [unread EXCEPT ![a] = @ \cup {id}]
  /\ UNCHANGED <<channel, profiles, connectors, db_connected, sweep, events>>
  /\ UNCHANGED sweepOthers

\* The scheduler's job, or trigger_schedule (lines 411-420), starts the check,
\* any number of times; the running check is check 1 of the log.
StartSweep ==
  /\ sweep.pc = "idle"
  /\ sweep' = [NoSweep EXCEPT !.n = 1, !.pc = "avatar"]
  /\ UNCHANGED <<channel, profiles, connectors, inbox, unread, db_connected, events>>
  /\ UNCHANGED sweepOthers

\* The head of the loop over the avatars: the gate and the connector lookup.
CheckAvatar ==
  /\ sweep.pc = "avatar"
  /\ sweep.ai <= Len(AvatarOrder)
  /\ \E now \in SweepTimes :
       IF /\ is_avatar_active(profiles[CurrentAvatar], gate_types(channel), now)
          /\ connectors[CurrentAvatar]
       THEN /\ sweep' = [sweep EXCEPT !.pc = "fetch", !.checked_at = now]
            /\ events' = settled(events) \cup {Ev(0, "checked")}
       ELSE /\ sweep' = leave_avatar(sweep)
            /\ events' = settled(events) \cup {Ev(0, "skipped")}
  /\ UNCHANGED <<channel, profiles, connectors, inbox, unread, db_connected>>
  /\ UNCHANGED sweepOthers

\* The loop over the avatars is exhausted: the check returns. Of a check that
\* has returned only the replies it sent and the email_ignored messages it
\* published are remembered, as those of an earlier check (0).
EndSweep ==
  /\ sweep.pc = "avatar"
  /\ sweep.ai > Len(AvatarOrder)
  /\ sweep' = [NoSweep EXCEPT !.n = sweep.n]
  /\ events' = {<<0, e[2], e[3], e[4]>> : e \in settled(events)}
  /\ UNCHANGED <<channel, profiles, connectors, inbox, unread, db_connected>>
  /\ UNCHANGED sweepOthers

\* EmailConnector.fetch_updates hands its IMAP connection to the check
\* (email_connector.py 72-73) unless it failed (lines 75-77).
mail_conn(c, outcome) ==
  IF c = "email" /\ outcome = "ok" THEN {Ev(0, "opened")} ELSE {}

\* mark_emails_as_read (email_connector.py 109-123) ends with
\* mail_connection.logout(), with and without ids to flag.
logout(c) == IF c = "email" THEN {Ev(0, "logout")} ELSE {}

\* await connector.fetch_updates() and the test of its result; a mailbox
\* without unread mail is logged out at once (main.py 87-90).
FetchUpdates ==
  /\ sweep.pc = "fetch"
  /\ \E outcome \in FetchOutcomes(channel) :
       LET a == CurrentAvatar
           list == IF outcome = "fails" THEN <<>>
                   ELSE fetched_list(channel, inbox[a], unread[a])
       IN /\ unread' = [unread EXCEPT
                          ![a] = unread_after_fetch(channel, outcome, @, list)]
          /\ IF list = <<>>
             THEN /\ sweep' = leave_avatar(sweep)
                  /\ events' = events \cup {Ev(0, "nothing")}
                                 \cup mail_conn(channel, outcome)
                                 \cup (IF outcome = "ok" THEN logout(channel) ELSE {})
             ELSE /\ sweep' = [sweep EXCEPT !.pc = "item", !.items = list, !.ii = 1]
                  /\ events' = events \cup {Ev(id, "fetched") : id \in elements(list)}
                                 \cup mail_conn(channel, outcome)
  /\ UNCHANGED <<channel, profiles, connectors, inbox, db_connected>>
  /\ UNCHANGED sweepOthers

\* The filter of scheduled_email_check says no (lines 102-113): the mail is
\* ignored and an email_ignored message is published.
IgnoreItem ==
  /\ sweep.pc = "item"
  /\ sweep.ii <= Len(sweep.items)
  /\ channel = "email"
  /\ sweep' = [next_item(sweep) EXCEPT !.ignored_ids = Append(@, CurrentItem)]
  /\ events' = events \cup {Ev(CurrentItem, "begun"), Ev(CurrentItem, "ignored")}
  /\ UNCHANGED <<channel, profiles, connectors, inbox, unread, db_connected>>
  /\ UNCHANGED sweepOthers

\* The reply is generated from the conversation's history (email, Telegram,
\* Slack).
GenerateReply ==
  /\ sweep.pc = "item"
  /\ sweep.ii <= Len(sweep.items)
  /\ channel # "github"
  /\ \E history \in history_reads(db_connected) :
       LET store == IF ~db_connected \/ history.kind = "None"
                    THEN {Ev(CurrentItem, "store_failed")} ELSE {}
       IN IF history_raises(history)
          THEN /\ sweep' = after_item_failure(sweep)
               /\ events' = events \cup store
                              \cup {Ev(CurrentItem, "begun"), Ev(CurrentItem, "failed")}
          ELSE /\ sweep' = [sweep EXCEPT !.pc = "send"]
               /\ events' = events \cup store
                              \cup {Ev(CurrentItem, "begun"), Ev(CurrentItem, "generated")}
  /\ UNCHANGED <<channel, profiles, connectors, inbox, unread, db_connected>>
  /\ UNCHANGED sweepOthers

\* scheduled_github_check, lines 145-146: the thread is looked up and the
\* comment generated from its title and body.
GenerateComment ==
  /\ sweep.pc = "item"
  /\ sweep.ii <= Len(sweep.items)
  /\ channel = "github"
  /\ \E details \in ThreadDetails :
       IF details_raise(details)
       THEN /\ sweep' = after_item_failure(sweep)
            /\ events' = events \cup {Ev(CurrentItem, "begun"), Ev(CurrentItem, "failed")}
       ELSE /\ sweep' = [sweep EXCEPT
                           !.pc = IF "comments_url" \in DOMAIN details
                                  THEN "send" ELSE "mark"]
            /\ events' = events
                           \cup {Ev(CurrentItem, "begun"), Ev(CurrentItem, "generated")}
  /\ UNCHANGED <<channel, profiles, connectors, inbox, unread, db_connected>>
  /\ UNCHANGED sweepOthers

\* await connector.send_message(...): every connector logs a failure of the
\* service and returns.
SendMessage ==
  /\ sweep.pc = "send"
  /\ \E success \in BOOLEAN, stored \in StoreOutcomes(db_connected) :
       /\ sweep' =
            IF channel = "github" THEN [sweep EXCEPT !.pc = "mark"]
            ELSE IF channel = "email" /\ success
            THEN [next_item(sweep) EXCEPT !.processed_ids = Append(@, CurrentItem)]
            ELSE next_item(sweep)
       /\ events' = events \cup {Ev(CurrentItem, "send_called")}
                      \cup (IF success THEN {Ev(CurrentItem, "replied")} ELSE {})
                      \cup (IF reply_appended(channel, success, stored)
                            THEN {Ev(CurrentItem, "appended")} ELSE {})
  /\ UNCHANGED <<channel, profiles, connectors, inbox, unread, db_connected>>
  /\ UNCHANGED sweepOthers

\* github_connector.mark_thread_as_read(notif['id']) (line 153): a failure of
\* the request is logged and the notification stays unread.
MarkThread ==
  /\ sweep.pc = "mark"
  /\ \E ok \in BOOLEAN :
       unread' = [unread EXCEPT
                    ![CurrentAvatar] = IF ok THEN @ \ {CurrentItem} ELSE @]
  /\ sweep' = next_item(sweep)
  /\ UNCHANGED <<channel, profiles, connectors, inbox, db_connected, events>>
  /\ UNCHANGED sweepOthers

\* The item loop is exhausted. scheduled_email_check marks the answered and the
\* ignored mail as read (lines 115-116); the store of a flag may fail, leaving
\* the later ids unseen.
EndItems ==
  /\ sweep.pc = "item"
  /\ sweep.ii > Len(sweep.items)
  /\ IF channel = "email"
     THEN LET all_processed_ids == sweep.processed_ids \o sweep.ignored_ids
          IN \E k \in 0..Len(all_processed_ids) :
               unread' = [unread EXCEPT
                            ![CurrentAvatar] =
                              @ \ elements(SubSeq(all_processed_ids, 1, k))]
     ELSE UNCHANGED unread
  /\ events' = events \cup logout(channel)
  /\ sweep' = leave_avatar(sweep)
  /\ UNCHANGED <<channel, profiles, connectors, inbox, db_connected>>
  /\ UNCHANGED sweepOthers

NextSweep ==
  \/ \E a \in AvatarIds : Arrive(a)
  \/ StartSweep
  \/ CheckAvatar
  \/ EndSweep
  \/ FetchUpdates
  \/ IgnoreItem
  \/ GenerateReply
  \/ GenerateComment
  \/ SendMessage
  \/ MarkThread
  \/ EndItems

\* ------------------------------------------------------------- startup_event (main.py)

\* The connector kinds, in the order startup_event builds them (lines 310-346).
KindOrder == <<"email", "github", "telegram", "discord", "reddit", "slack">>

ConnectorKinds == elements(KindOrder)

\* The credentials of one connector: every variable is set and usable; a
\* required variable is missing; the variables are set and the service turns
\* them down or cannot be reached.
CredentialStates == {"set", "missing", "rejected"}

\* The environments of one avatar: everything set, one kind's credentials
\* missing or rejected, or nothing configured at all.
Environments ==
  {[k \in ConnectorKinds |-> "set"], [k \in ConnectorKinds |-> "missing"]}
  \cup {[k \in ConnectorKinds |-> IF k = bad THEN state ELSE "set"] :
          bad \in ConnectorKinds, state \in {"missing", "rejected"}}

\* What yaml.safe_load gives for a profile file (line 306): no schedule, a
\* schedule as the README shows it, or any other numbers.
LoadedProfiles ==
  {<<>>, [schedule |-> [work |-> WorkWeek]], [schedule |-> [work |-> Inverted]],
   [schedule |-> [social |-> NoHours]]}

\* get_credentials of each connector. Email, Reddit and Slack read required
\* variables (_get_env_var raises ValueError, base_connector.py 31-38) and touch
\* no service; GitHub and Discord return False without a token; Telegram returns
\* False without a token and otherwise awaits bot.get_me()
\* (telegram_connector.py 15-23), whose failure is raised to the caller.
get_credentials(kind, state) ==
  IF kind \in {"email", "reddit", "slack"}
  THEN (IF state = "missing" THEN "ValueError" ELSE "None")
  ELSE IF state = "missing" THEN "False"
  ELSE IF kind = "telegram" /\ state = "rejected" THEN "raises"
  ELSE "True"

\* Lines 310-346: Email, Reddit and Slack are built under try/except
\* ValueError, the others under `if get_credentials()`; any other exception
\* leaves startup_event.
connector_step(kind, outcome) ==
  CASE outcome \in {"None", "True"} -> "registered"
    [] outcome = "False" -> "skipped"
    [] outcome = "ValueError" /\ kind \in {"email", "reddit", "slack"} -> "skipped"
    [] OTHER -> "raised"

NoStartup == [pc |-> "idle", fi |-> 1, ki |-> 1, connectors |-> {}]

IdleStartup ==
  /\ env = [a \in AvatarIds |-> [k \in ConnectorKinds |-> "missing"]]
  /\ yaml_profiles = [a \in AvatarIds |-> <<>>]
  /\ loaded = <<>>
  /\ registered = [a \in AvatarIds |-> {}]
  /\ startup = NoStartup

\* startup_event at line 296: app.state.avatars = {}, before the first file.
InitStartup ==
  /\ env \in [AvatarIds -> Environments]
  /\ yaml_profiles \in [AvatarIds -> LoadedProfiles]
  /\ loaded = <<>>
  /\ registered = [a \in AvatarIds |-> {}]
  /\ startup = [NoStartup EXCEPT !.pc = "file"]

\* The profile file being loaded, and the connector being built.
StartupAvatar == AvatarOrder[startup.fi]
StartupKind == KindOrder[startup.ki]

\* Lines 298-308: the next profile file is read.
OpenProfile ==
  /\ startup.pc = "file"
  /\ startup.fi <= Len(AvatarOrder)
  /\ startup' = [startup EXCEPT !.pc = "connector", !.ki = 1, !.connectors = {}]
  /\ UNCHANGED <<env, yaml_profiles, loaded, registered>>
  /\ UNCHANGED startupOthers

\* Lines 310-346: one connector is created and asked for its credentials.
BuildConnector ==
  /\ startup.pc = "connector"
  /\ startup.ki <= Len(KindOrder)
  /\ LET step == connector_step(StartupKind,
                                get_credentials(StartupKind, env[StartupAvatar][StartupKind]))
     IN startup' =
          CASE step = "registered" ->
                 [startup EXCEPT !.ki = @ + 1, !.connectors = @ \cup {StartupKind}]
            [] step = "skipped" -> [startup EXCEPT !.ki = @ + 1]
            [] OTHER -> [startup EXCEPT !.pc = "failed"]
  /\ UNCHANGED <<env, yaml_profiles, loaded, registered>>
  /\ UNCHANGED startupOthers

\* Lines 348-354: the avatar is put into app.state.avatars.
RegisterAvatar ==
  /\ startup.pc = "connector"
  /\ startup.ki > Len(KindOrder)
  /\ loaded' = Append(loaded, StartupAvatar)
  /\ registered' = [registered EXCEPT ![StartupAvatar] = startup.connectors]
  /\ startup' = [startup EXCEPT !.pc = "file", !.fi = @ + 1, !.ki = 1, !.connectors = {}]
  /\ UNCHANGED <<env, yaml_profiles>>
  /\ UNCHANGED startupOthers

\* Lines 356-377: every file is loaded, the scheduler is started.
FinishStartup ==
  /\ startup.pc = "file"
  /\ startup.fi > Len(AvatarOrder)
  /\ startup' = [startup EXCEPT !.pc = "done"]
  /\ UNCHANGED <<env, yaml_profiles, loaded, registered>>
  /\ UNCHANGED startupOthers

NextStartup ==
  \/ OpenProfile
  \/ BuildConnector
  \/ RegisterAvatar
  \/ FinishStartup

\* ------------------------------------------------------------- ToolManager._load_tools

\* The tool files of the package, in the order the directory is scanned.
ToolFileOrder == <<"calculator", "wikipedia", "web_search">>

ToolFiles == elements(ToolFileOrder)

\* What a tool file gives when imported (lines 23-38): the executable named
\* after the file and get_tool_definition; one of the two missing; an import
\* that raises.
ModuleShapes == {"tool", "no_function", "no_definition", "import_error"}

\* Lines 40-45: the entry built for a tool, a new object at every call of
\* _load_tools.
ToolEntry(name, load) == [name |-> name, created_in |-> load]

\* Lines 42-45: self.tools[tool_name] = {...}, a dict assignment.
dict_set(d, k, v) == [x \in DOMAIN d \cup {k} |-> IF x = k THEN v ELSE d[x]]

NoLoad == [pc |-> "idle", fi |-> 1, loads |-> 0]

IdleTools ==
  /\ tool_modules = [f \in ToolFiles |-> "tool"]
  /\ registry = <<>>
  /\ loader = NoLoad

\* ToolManager.__init__ (lines 9-11): the registry is empty and _load_tools is
\* called.
InitTools ==
  /\ tool_modules \in [ToolFiles -> ModuleShapes]
  /\ registry = <<>>
  /\ loader = [pc |-> "scan", fi |-> 1, loads |-> 1]

\* Lines 16-50, one turn of the loop over the tool files: the module is
\* imported and, when it has both functions, registered under the file's name.
LoadModule ==
  /\ loader.pc = "scan"
  /\ loader.fi <= Len(ToolFileOrder)
  /\ LET tool_name == ToolFileOrder[loader.fi]
     IN registry' =
          IF tool_modules[tool_name] = "tool"
          THEN dict_set(registry, tool_name, ToolEntry(tool_name, loader.loads))
          ELSE registry
  /\ loader' = [loader EXCEPT !.fi = @ + 1]
  /\ UNCHANGED tool_modules
  /\ UNCHANGED toolOthers

\* The loop over the tool files is exhausted: _load_tools returns.
EndLoad ==
  /\ loader.pc = "scan"
  /\ loader.fi > Len(ToolFileOrder)
  /\ loader' = [loader EXCEPT !.pc = "idle", !.fi = 1]
  /\ UNCHANGED <<tool_modules, registry>>
  /\ UNCHANGED toolOthers

\* _load_tools is called again on the manager.
LoadTools ==
  /\ loader.pc = "idle"
  /\ loader.loads < MaxLoads
  /\ loader' = [pc |-> "scan", fi |-> 1, loads |-> loader.loads + 1]
  /\ UNCHANGED <<tool_modules, registry>>
  /\ UNCHANGED toolOthers

NextTools ==
  \/ LoadModule
  \/ EndLoad
  \/ LoadTools

\* ------------------------------------------------------------- conversation history (db.py)

\* The chats: (avatar_id, platform, chat_id).
ChatConversations ==
  {<<"a1", "telegram", "c1">>, <<"a1", "telegram", "c2">>, <<"a2", "slack", "c1">>}

\* The mails: (avatar_id, sender, recipient), "me" being the avatar's address.
Mails == {<<"a1", "x", "me">>, <<"a1", "me", "y">>, <<"a2", "x", "me">>}

\* The mail conversations read: (avatar_id, the correspondent's address).
MailConversations == {<<"a1", "x">>, <<"a1", "me">>, <<"a2", "x">>}

\* The LIMIT values.
Limits == {1, 2}

\* Lines 173-183 and 118-128: the row inserted; message n is the n-th statement's.
ChatRow(conv, n, ts) ==
  [table |-> "chat_history", avatar_id |-> conv[1], platform |-> conv[2],
   chat_id |-> conv[3], sender |-> "user", message |-> n, timestamp |-> ts]

MailRow(mail, n, ts) ==
  [table |-> "email_history", avatar_id |-> mail[1], sender |-> mail[2],
   recipient |-> mail[3], message |-> n, timestamp |-> ts]

\* SELECT sender, message, timestamp: the turn a row is read as.
Turn(row) == [sender |-> row.sender, message |-> row.message, timestamp |-> row.timestamp]

\* Line 194: WHERE avatar_id = %s AND platform = %s AND chat_id = %s.
chat_matches(row, conv) ==
  row.avatar_id = conv[1] /\ row.platform = conv[2] /\ row.chat_id = conv[3]

\* Line 139: WHERE avatar_id = %s AND (sender = %s OR recipient = %s).
mail_matches(row, conv) ==
  row.avatar_id = conv[1] /\ (row.sender = conv[2] \/ row.recipient = conv[2])

\* ORDER BY timestamp ASC.
first_rows_oldest(rows, ids) == {x \in ids : \A y \in ids : rows[x].timestamp <= rows[y].timestamp}

\* ORDER BY timestamp DESC: the rows that may come first.
first_rows(rows, ids) == {x \in ids : \A y \in ids : rows[x].timestamp >= rows[y].timestamp}

\* ORDER BY timestamp DESC: every order of the rows by non-increasing timestamp.
RECURSIVE newest_first(_, _)
newest_first(rows, ids) ==
  IF ids = {} THEN {<<>>}
  ELSE UNION {{<<x>> \o rest : rest \in newest_first(rows, ids \ {x})} :
                x \in first_rows(rows, ids)}

\* Lines 185-202 and 130-147 under db_operation (52-74): the lists a history
\* query may give; list() without a connection; None when the query raises.
history_query(rows, ids, limit, up, raises) ==
  IF ~up THEN {[kind |-> "list", rows |-> <<>>]}
  ELSE IF raises THEN {NoRows}
  ELSE {[kind |-> "list", rows |-> [k \in 1..Len(o) |-> Turn(rows[o[k]])]] :
          o \in {take(full, limit) : full \in newest_first(rows, ids)}}

\* DEFAULT NOW() / CURRENT_TIMESTAMP: the time the transaction began. psycopg2
\* opens a transaction with the first statement after a commit or rollback.
now(clock, began) == IF began = 0 THEN clock ELSE began

NoRow == [table |-> "none"]

NoRead == [table |-> "none", conv |-> <<>>, limit |-> 0, at |-> 0, result |-> NoRows]

IdleHistory ==
  /\ db_up = FALSE
  /\ chat_history = <<>>
  /\ email_history = <<>>
  /\ db_now = 0
  /\ txn_start = 0
  /\ latest = NoRow
  /\ last_read = NoRead

\* The tables are empty (created at startup, lines 76-94 and 149-171), the
\* connection is there or not.
InitHistory ==
  /\ db_up \in BOOLEAN
  /\ chat_history = <<>>
  /\ email_history = <<>>
  /\ db_now = 1
  /\ txn_start = 0
  /\ latest = NoRow
  /\ last_read = NoRead

\* The statements still to come.
CanExecute == db_now <= MaxStatements

\* The effect of one INSERT under db_operation: without a connection nothing
\* happens; a statement that raises is rolled back; otherwise the row is
\* committed.
Insert(row, raises) ==
  IF ~db_up THEN UNCHANGED <<chat_history, email_history, db_now, txn_start, latest>>
  ELSE /\ db_now' = db_now + 1
       /\ txn_start' = 0
       /\ IF raises THEN UNCHANGED <<chat_history, email_history, latest>>
          ELSE /\ latest' = row
               /\ IF row.table = "chat_history"
                  THEN /\ chat_history' = Append(chat_history, row)
                       /\ UNCHANGED email_history
                  ELSE /\ email_history' = Append(email_history, row)
                       /\ UNCHANGED chat_history

\* add_message_to_chat_history (lines 173-183).
AddMessageToChatHistory ==
  /\ CanExecute
  /\ \E conv \in ChatConversations, raises \in BOOLEAN :
       Insert(ChatRow(conv, db_now, now(db_now, txn_start)), raises)
  /\ UNCHANGED <<db_up, last_read>>
  /\ UNCHANGED histOthers

\* add_email_to_history (lines 118-128).
AddEmailToHistory ==
  /\ CanExecute
  /\ \E mail \in Mails, raises \in BOOLEAN :
       Insert(MailRow(mail, db_now, now(db_now, txn_start)), raises)
  /\ UNCHANGED <<db_up, last_read>>
  /\ UNCHANGED histOthers

\* The effect of one SELECT on the connection: it opens a transaction unless
\* one is open, and no commit follows; a query that raises is rolled back.
Select(raises) ==
  IF ~db_up THEN UNCHANGED <<db_now, txn_start>>
  ELSE /\ db_now' = db_now + 1
       /\ txn_start' = IF raises THEN 0 ELSE now(db_now, txn_start)

\* get_chat_history (lines 185-202).
GetChatHistory ==
  /\ CanExecute
  /\ \E conv \in ChatConversations, limit \in Limits, raises \in BOOLEAN :
       /\ \E res \in history_query(
                       chat_history,
                       {r \in 1..Len(chat_history) : chat_matches(chat_history[r], conv)},
                       limit, db_up, raises) :
            last_read' = [table |-> "chat_history", conv |-> conv, limit |-> limit,
                          at |-> db_now, result |-> res]
       /\ Select(raises)
  /\ UNCHANGED <<db_up, chat_history, email_history, latest>>
  /\ UNCHANGED histOthers

\* get_email_history (lines 130-147).
GetEmailHistory ==
  /\ CanExecute
  /\ \E conv \in MailConversations, limit \in Limits, raises \in BOOLEAN :
       /\ \E res \in history_query(
                       email_history,
                       {r \in 1..Len(email_history) : mail_matches(email_history[r], conv)},
                       limit, db_up, raises) :
            last_read' = [table |-> "email_history", conv |-> conv, limit |-> limit,
                          at |-> db_now, result |-> res]
       /\ Select(raises)
  /\ UNCHANGED <<db_up, chat_history, email_history, latest>>
  /\ UNCHANGED histOthers

NextHistory ==
  \/ AddMessageToChatHistory
  \/ AddEmailToHistory
  \/ GetChatHistory
  \/ GetEmailHistory

\* ------------------------------------------------------------- DiscordConnector.fetch_updates

\* The two places fetch_updates of one connector is called from, on one event
\* loop: the scheduler's scheduled_discord_check and POST /trigger_schedule.
Callers == {"scheduled", "manual"}

TextChannels == 1..MaxChannels

NoPost == [id |-> 0, own |-> FALSE]

NoFetch == [pc |-> "idle", channel |-> 1, message |-> NoPost, updates |-> <<>>]

\* Line 78 without the membership test.
is_new_unchecked(message, processed) == ~message.own

\* Line 78, negated: the message is neither the client's own nor processed before.
is_new(message, processed) == ~message.own /\ message.id \notin processed

\* The loop over the channels (lines 73-74): the next channel, or the return.
next_channel(call) ==
  IF call.channel < MaxChannels
    THEN [call EXCEPT !.pc = "history", !.channel = call.channel + 1, !.message = NoPost]
    ELSE [call EXCEPT !.pc = "return", !.message = NoPost]

IdleDiscord ==
  /\ client_ready = FALSE
  /\ text_channels = [c \in TextChannels |-> NoPost]
  /\ posted = 0
  /\ processed_messages = {}
  /\ fetches = [k \in Callers |-> NoFetch]
  /\ returned = <<>>

\* A connector as __init__ leaves it (lines 11-15), with the client connected
\* or not, and channels nobody has written to.
InitDiscord ==
  /\ client_ready \in BOOLEAN
  /\ text_channels = [c \in TextChannels |-> NoPost]
  /\ posted = 0
  /\ processed_messages = {}
  /\ fetches = [k \in Callers |-> NoFetch]
  /\ returned = <<>>

\* Somebody, or the avatar itself (send_message, line 50), writes to a channel:
\* the message becomes the channel's last one.
PostMessage ==
  /\ posted < MaxPosts
  /\ \E c \in TextChannels, own \in BOOLEAN :
       text_channels' = [text_channels EXCEPT ![c] = [id |-> posted + 1, own |-> own]]
  /\ posted' = posted + 1
  /\ UNCHANGED <<client_ready, processed_messages, fetches, returned>>
  /\ UNCHANGED discordOthers

\* fetch_updates is called (main.py:205, reached from the scheduler and from
\* trigger_schedule, main.py:417): lines 65-70. Without a ready client it
\* returns the empty list at once.
FetchDiscordUpdates(k) ==
  /\ fetches[k].pc = "idle"
  /\ fetches' = [fetches EXCEPT ![k] =
       IF client_ready
         THEN [pc |-> "history", channel |-> 1, message |-> NoPost, updates |-> <<>>]
         ELSE NoFetch]
  /\ UNCHANGED <<client_ready, text_channels, posted, processed_messages, returned>>
  /\ UNCHANGED discordOthers

\* `async for message in channel.history(limit=1)` (line 76): the call is
\* suspended for the request and resumes with the channel's last message, with
\* nothing for an empty channel, or with an exception (lines 94-97).
History(k) ==
  /\ fetches[k].pc = "history"
  /\ \E outcome \in {"ok", "failed"} :
       LET last == text_channels[fetches[k].channel] IN
       fetches' = [fetches EXCEPT ![k] =
         IF outcome = "ok" /\ last # NoPost
           THEN [@ EXCEPT !.pc = "message", !.message = last]
           ELSE next_channel(@)]
  /\ UNCHANGED <<client_ready, text_channels, posted, processed_messages, returned>>
  /\ UNCHANGED discordOthers

\* The body of the loop, lines 78-93, which holds no await: the test, the
\* insertion into processed_messages and the append to updates are one step.
ProcessMessage(k) ==
  /\ fetches[k].pc = "message"
  /\ LET message == fetches[k].message IN
     IF is_new(message, processed_messages)
       THEN /\ processed_messages' = processed_messages \cup {message.id}
            /\ fetches' = [fetches EXCEPT ![k] =
                 next_channel([@ EXCEPT !.updates = Append(@, message.id)])]
       ELSE /\ processed_messages' = processed_messages
            /\ fetches' = [fetches EXCEPT ![k] = next_channel(@)]
  /\ UNCHANGED <<client_ready, text_channels, posted, returned>>
  /\ UNCHANGED discordOthers

\* `return updates` (line 99).
ReturnUpdates(k) ==
  /\ fetches[k].pc = "return"
  /\ returned' = returned \o fetches[k].updates
  /\ fetches' = [fetches EXCEPT ![k] = NoFetch]
  /\ UNCHANGED <<client_ready, text_channels, posted, processed_messages>>
  /\ UNCHANGED discordOthers

NextDiscord ==
  \/ PostMessage
  \/ \E k \in Callers : FetchDiscordUpdates(k)
  \/ \E k \in Callers : History(k)
  \/ \E k \in Callers : ProcessMessage(k)
  \/ \E k \in Callers : ReturnUpdates(k)

\* ------------------------------------------------------------- specifications

IdleGen ==
  /\ avatar_profile = [llm_engine |-> "ollama", llm_api_base |-> FALSE, tools |-> {}]
  /\ pc = "idle"
  /\ llm_conf = "unset"
  /\ tool_definitions = {}
  /\ messages = <<>>
  /\ chat_calls = <<>>
  /\ response_message = NoMessage
  /\ i = 1
  /\ executions = <<>>
  /\ final_response = NoMessage
  /\ retval = Pending

\* One run of _generate_response for any profile and any backend and tool behaviour.
GenInit ==
  /\ InitGen /\ IdleChat /\ IdleGate /\ IdleFilter /\ IdleRag /\ InitBus
  /\ IdleSweep /\ IdleStartup /\ IdleTools /\ IdleHistory
  /\ IdleDiscord

SpecGen == GenInit /\ [][NextGen]_vars

\* One _chat_completion call for any configuration, tools and backend behaviour.
ChatInit ==
  /\ InitChat /\ IdleGen /\ IdleGate /\ IdleFilter /\ IdleRag /\ InitBus
  /\ IdleSweep /\ IdleStartup /\ IdleTools /\ IdleHistory
  /\ IdleDiscord

SpecChat == ChatInit /\ [][NextChat]_vars

\* One call of is_avatar_active for any profile, categories and time.
GateInit ==
  /\ InitGate /\ IdleGen /\ IdleChat /\ IdleFilter /\ IdleRag /\ InitBus
  /\ IdleSweep /\ IdleStartup /\ IdleTools /\ IdleHistory
  /\ IdleDiscord

SpecGate == GateInit /\ [][NextGate]_vars

\* One call of should_reply_to_email for any defaults and any backend behaviour.
FilterInit ==
  /\ InitFilter /\ IdleGen /\ IdleChat /\ IdleGate /\ IdleRag /\ InitBus
  /\ IdleSweep /\ IdleStartup /\ IdleTools /\ IdleHistory
  /\ IdleDiscord

SpecFilter == FilterInit /\ [][NextFilter]_vars

\* The context retrieval of one run of _generate_response, for any query,
\* store and embedding behaviour.
RagInit ==
  /\ InitRag /\ IdleGen /\ IdleChat /\ IdleGate /\ IdleFilter /\ InitBus
  /\ IdleSweep /\ IdleStartup /\ IdleTools /\ IdleHistory
  /\ IdleDiscord

SpecRag == RagInit /\ [][NextRag]_vars

\* The event bus from its construction, under any sequence of subscribe,
\* unsubscribe, publish, start_processing and stop_processing calls.
BusInit ==
  /\ InitBus /\ IdleGen /\ IdleChat /\ IdleGate /\ IdleFilter /\ IdleRag
  /\ IdleSweep /\ IdleStartup /\ IdleTools /\ IdleHistory
  /\ IdleDiscord

SpecBus == BusInit /\ [][NextBus]_vars

\* The event loop runs every task that is ready (the consumer is scheduled
\* fairly), and a callback that was invoked returns or raises.
BusFairness ==
  /\ WF_vars(TaskBegins)
  /\ WF_vars(GetMessage)
  /\ WF_vars(NextCallback)
  /\ WF_vars(CallbackReturns \/ CallbackFails)
  /\ WF_vars(TaskCancelled)

SpecBusFair == BusInit /\ [][NextBus]_vars /\ BusFairness

\* The channel checks.
SweepInit ==
  /\ InitSweep /\ IdleGen /\ IdleChat /\ IdleGate /\ IdleFilter /\ IdleRag /\ InitBus
  /\ IdleStartup /\ IdleTools /\ IdleHistory
  /\ IdleDiscord

SpecSweep == SweepInit /\ [][NextSweep]_vars

\* startup_event.
StartupInit ==
  /\ InitStartup /\ IdleGen /\ IdleChat /\ IdleGate /\ IdleFilter /\ IdleRag /\ InitBus
  /\ IdleSweep /\ IdleTools /\ IdleHistory
  /\ IdleDiscord

SpecStartup == StartupInit /\ [][NextStartup]_vars

\* ToolManager._load_tools.
ToolsInit ==
  /\ InitTools /\ IdleGen /\ IdleChat /\ IdleGate /\ IdleFilter /\ IdleRag /\ InitBus
  /\ IdleSweep /\ IdleStartup /\ IdleHistory
  /\ IdleDiscord

SpecTools == ToolsInit /\ [][NextTools]_vars

\* The history functions of db.py.
HistoryInit ==
  /\ InitHistory /\ IdleGen /\ IdleChat /\ IdleGate /\ IdleFilter /\ IdleRag /\ InitBus
  /\ IdleSweep /\ IdleStartup /\ IdleTools
  /\ IdleDiscord

SpecHistory == HistoryInit /\ [][NextHistory]_vars

\* The fetch_updates calls of one Discord connector, from two callers.
DiscordInit ==
  /\ InitDiscord /\ IdleGen /\ IdleChat /\ IdleGate /\ IdleFilter /\ IdleRag /\ InitBus
  /\ IdleSweep /\ IdleStartup /\ IdleTools /\ IdleHistory

SpecDiscord == DiscordInit /\ [][NextDiscord]_vars

\* Either of the two: a run of _generate_response, or a _chat_completion call.
BackendInit == GenInit \/ ChatInit

NextBackend == NextGen \/ NextChat

SpecBackend == BackendInit /\ [][NextBackend]_vars

\* ------------------------------------------------------------- tool round: vocabulary

\* The requests of the PROPOSE reply.
Requested == response_message.tool_calls

Positions == 1..Len(Requested)

\* The loop got to request k: its iteration completed (k < i) or ended the
\* run (the run is over with the loop still at k).
Entered(k) == k \in Positions /\ (k < i \/ (k = i /\ pc = "done"))

\* The iteration of request k completed and the loop went on.
Completed(k) == k \in Positions /\ k < i

\* The executable of request k ran with this outcome.
Ran(k, outcome) ==
  \E n \in 1..Len(executions) :
    executions[n].id = Requested[k].id /\ executions[n].outcome = outcome

RanAtAll(k) == \E n \in 1..Len(executions) : executions[n].id = Requested[k].id

\* The turn the loop appended for request k.
ResultTurn(k) == messages[k + 2]

\* A result turn whose content is an error string.
IsErrorTurn(m) ==
  /\ m.role = "tool"
  /\ \/ m.content = <<"Error: Invalid arguments">>
     \/ (Len(m.content) = 4 /\ m.content[1] = "json" /\ m.content[2] = "str")

\* The arguments of request k decode to an object that binds to its tool.
Bindable(k) ==
  LET f == Requested[k].function
      a == json_loads(f.arguments)
  IN f.name \in DOMAIN tools /\ a.type = "dict" /\ binds(f.name, a.keys)

\* The arguments of request k are malformed: not parseable, not an object,
\* or not matching the parameters its tool declares.
Malformed(k) ==
  LET f == Requested[k].function
      a == json_loads(f.arguments)
  IN \/ a.type # "dict"
     \/ (f.name \in DOMAIN tools /\ ~binds(f.name, a.keys))

\* ------------------------------------------------------------- claims: tool round

\* C1: one run of _generate_response ends after at most two _chat_completion
\* calls, and after exactly two when the first reply carries tool requests.
C1_RoundTrips ==
  pc = "done" =>
    /\ Len(chat_calls) <= 2
    /\ (Requested # <<>> => Len(chat_calls) = 2)

\* C2: a request whose executable raises gets an error-string result under its
\* call id and the loop goes on to the next request; a request whose executable
\* returns gets its real result; and a round whose requests all ran, some
\* raising and some returning, ends with every request answered and the
\* FINALIZE call made.
C2_Isolation ==
  /\ \A k \in Positions :
       /\ Ran(k, "raises") =>
            /\ Completed(k)
            /\ ResultTurn(k) = Message("tool",
                 json_dumps(<<"str", "Error: raised", Requested[k].function.name>>),
                 Requested[k].id, Requested[k].function.name, <<>>)
       /\ Ran(k, "returns") =>
            /\ Completed(k)
            /\ ResultTurn(k) = Message("tool",
                 json_dumps(<<"dict", "payload", Requested[k].function.name>>),
                 Requested[k].id, Requested[k].function.name, <<>>)
  /\ ( /\ pc = "done"
       /\ \A k \in Positions : Bindable(k)
       /\ \A n \in 1..Len(executions) : executions[n].outcome # "returns_unencodable"
       /\ \E k \in Positions : Ran(k, "raises")
       /\ \E k \in Positions : Ran(k, "returns") )
     => /\ \A k \in Positions : Completed(k) /\ RanAtAll(k)
        /\ Len(chat_calls) = 2
        /\ Len(chat_calls[2].messages) = Len(Requested) + 3
        /\ \A k \in Positions : chat_calls[2].messages[k + 2] = ResultTurn(k)

\* C2's case: the first of two requests raised, the second returned, and the
\* FINALIZE call answered.
C2_Witness ==
  /\ pc = "done"
  /\ Len(Requested) = 2
  /\ Ran(1, "raises")
  /\ Ran(2, "returns")
  /\ Len(chat_calls) = 2
  /\ final_response # NoMessage

\* C3: a request with malformed arguments gets a synthesized error result, its
\* executable does not run, and the loop goes on (the round is not ended by it).
C3_MalformedArguments ==
  \A k \in Positions :
    (Entered(k) /\ Malformed(k)) =>
      /\ Completed(k)
      /\ IsErrorTurn(ResultTurn(k))
      /\ ~RanAtAll(k)

\* C4: after EXECUTE the message list is the prompt, the assistant's tool-call
\* turn and one result turn per request in the order received, each carrying
\* the call id of the request it answers.
C4_ResultTurns ==
  pc = "finalize" =>
    /\ Len(messages) = Len(Requested) + 2
    /\ messages[1].role = "user"
    /\ messages[2] = response_message
    /\ \A k \in Positions :
         /\ ResultTurn(k).role = "tool"
         /\ ResultTurn(k).tool_call_id = Requested[k].id

\* C5: the step out of FINALIZE appends exactly the instruction turn, makes the
\* second backend call with the full message list and no tool schemas, runs no
\* tool, returns the reply's text as it is (also when the reply asks for
\* tools), and ends the run: nothing follows it.
C5_Finalize ==
  [][ /\ pc = "finalize" =>
          /\ pc' = "done"
          /\ messages' = Append(messages, Message("user", final_instruction, Absent, Absent, <<>>))
          /\ Len(chat_calls') = 2
          /\ chat_calls'[2].tools = {}
          /\ chat_calls'[2].messages = messages'
          /\ executions' = executions
          /\ (chat_calls'[2].outcome = "reply" =>
                retval' = [kind |-> "return", value |-> final_response'.content])
      /\ pc = "done" => UNCHANGED vars ]_vars

\* C5's case: the FINALIZE reply asked for a tool again and its text was returned.
C5_Witness ==
  /\ pc = "done"
  /\ final_response.tool_calls # <<>>
  /\ final_response.content = <<"text_b">>
  /\ retval = [kind |-> "return", value |-> <<"text_b">>]
  /\ tool_definitions # {}
  /\ Len(chat_calls) = 2

\* C6: a PROPOSE reply without tool requests is returned after one backend
\* call, with no tool run and no instruction turn appended.
C6_NoToolRequest ==
  (pc = "done" /\ response_message # NoMessage /\ Requested = <<>>) =>
    /\ retval = [kind |-> "return", value |-> response_message.content]
    /\ Len(chat_calls) = 1
    /\ executions = <<>>
    /\ messages = <<Message("user", <<"prompt">>, Absent, Absent, <<>>)>>

\* C6's case: a text-only PROPOSE reply ended the run.
C6_Witness ==
  /\ pc = "done"
  /\ response_message.role = "assistant"
  /\ Requested = <<>>
  /\ retval = [kind |-> "return", value |-> <<"text_a">>]

\* C7: a request naming a tool the registry does not hold gets an error-string
\* result, runs no executable, and the loop goes on.
C7_UnknownTool ==
  \A k \in Positions :
    (Entered(k) /\ Requested[k].function.name \notin DOMAIN tools) =>
      /\ Completed(k)
      /\ IsErrorTurn(ResultTurn(k))
      /\ ~RanAtAll(k)

\* C8: _generate_response never raises: when a backend call fails, or the
\* backend configuration cannot be resolved, it returns the fallback text.
C8_FallbackNotRaise ==
  /\ retval.kind # "raise"
  /\ (pc = "done" /\ (llm_conf = "ValueError"
                      \/ \E n \in 1..Len(chat_calls) : chat_calls[n].outcome = "error"))
       => retval = Fallback

\* ------------------------------------------------------------- claims: remote backend

Remote == cc_llm_config.engine = "openai_compatible"

\* A response that is no usable answer: a transport error, an error status,
\* or a body that holds no choice.
Failure(response) ==
  \/ response.kind = "transport_error"
  \/ response.status_code >= 400
  \/ ~response.well_formed

Accepted(response) == ~Failure(response)

\* The server rejected the request as invalid and blamed its tools.
RejectedForTools(response) ==
  /\ response.kind = "http"
  /\ response.status_code \in {400, 422}
  /\ response.complaint = "tools"

ClientError(response) ==
  response.kind = "http" /\ response.status_code \in 400..499

\* The retry is the first request with the tool schemas and the tool choice taken out.
StrippedRetry ==
  /\ requests[2].payload = requests[1].payload \ {"tools", "tool_choice"}
  /\ requests[2].tools = {}

\* Every failure that ends the call leaves it as an exception, and no request
\* follows the last response.
FailurePropagates ==
  cc_pc = "done" =>
    /\ Len(requests) = Len(responses)
    /\ (Failure(responses[Len(responses)]) => cc_retval.kind = "raise")

\* C9 as stated: at most two requests; a second one only after a tool-bearing
\* first request was rejected for its tool usage, with the tools stripped;
\* every other failure raises with no retry.
C9_RetryOnlyForToolRejection ==
  Remote =>
    /\ Len(requests) <= 2
    /\ (Len(requests) = 2 =>
          /\ "tools" \in requests[1].payload
          /\ RejectedForTools(responses[1])
          /\ StrippedRetry)
    /\ FailurePropagates

\* C9 as the code has it: at most two requests; a second one only after a
\* tool-bearing first request was answered with status 400, whatever the
\* server rejected it for, with the tools stripped; every other failure raises
\* with no retry.
C9_RetryOnlyAfter400 ==
  Remote =>
    /\ Len(requests) <= 2
    /\ (Len(requests) = 2 =>
          /\ "tools" \in requests[1].payload
          /\ responses[1].kind = "http"
          /\ responses[1].status_code = 400
          /\ StrippedRetry)
    /\ FailurePropagates

\* C9's case: the retry was sent and rejected too, and the call raised.
C9_Witness ==
  /\ Remote
  /\ cc_pc = "done"
  /\ Len(requests) = 2
  /\ responses[1].status_code = 400
  /\ responses[2].status_code = 400
  /\ cc_retval.kind = "raise"

\* A finished remote call made with tools, whose request without tools,
\* whenever it was sent, was accepted.
ToolsCallAcceptedWithoutTools ==
  /\ cc_pc = "done"
  /\ Remote
  /\ cc_tools # {}
  /\ (Len(responses) = 2 => Accepted(responses[2]))

ReturnsRetried ==
  /\ Len(requests) = 2
  /\ Len(responses) = 2
  /\ cc_retval = [kind |-> "return", value |-> responses[2].choice.message.content]

\* C10 as stated: a tool-bearing request rejected with a client error, the
\* same request without tools accepted: the call returns the retried response.
C10_ClientErrorRetried ==
  (ToolsCallAcceptedWithoutTools /\ ClientError(responses[1])) => ReturnsRetried

Status400(response) == response.kind = "http" /\ response.status_code = 400

\* C10 as the code has it: the rejection is an answer with status 400.
C10_Status400Retried ==
  (ToolsCallAcceptedWithoutTools /\ Status400(responses[1])) => ReturnsRetried

\* C10's case: rejected with 400, retried without tools, accepted, returned.
C10_Witness ==
  /\ ToolsCallAcceptedWithoutTools
  /\ Status400(responses[1])
  /\ "tools" \in requests[1].payload
  /\ "tools" \notin requests[2].payload
  /\ cc_retval = [kind |-> "return", value |-> <<"text_a">>]

\* ------------------------------------------------------------- local engine

\* The _chat_completion call is for the local-inference engine.
LocalCall == cc_pc # "idle" /\ cc_llm_config.engine # "openai_compatible"

\* The run of _generate_response resolved the local-inference engine.
LocalRun == pc # "idle" /\ llm_conf = "ollama"

\* No request sent so far carries tool schemas or a tools key.
NoSchemasSent ==
  \A n \in 1..Len(requests) :
    /\ requests[n].tools = {}
    /\ requests[n].payload \cap {"tools", "tool_choice"} = {}

\* C11: with the local-inference engine no tool schemas are ever sent: a
\* _chat_completion call given tools sends a request without them and ends
\* with the engine's text (or its failure), and a run of _generate_response,
\* whatever the profile's allowlist, builds no tool definitions and passes
\* none to any of its backend calls.
C11_LocalEngineTextOnly ==
  /\ LocalCall =>
       /\ NoSchemasSent
       /\ \A n \in 1..Len(requests) : requests[n].to = "ollama.chat"
       /\ cc_pc = "done" =>
            /\ Len(requests) = 1
            /\ responses[1].kind = "ollama" =>
                 cc_retval = [kind |-> "return", value |-> responses[1].choice.message.content]
  /\ LocalRun =>
       /\ tool_definitions = {}
       /\ \A n \in 1..Len(chat_calls) : chat_calls[n].tools = {}

\* A local-engine call that was given two tool schemas has returned a text.
C11_Witness ==
  /\ LocalCall
  /\ cc_tools = {"calculator", "wikipedia"}
  /\ cc_pc = "done"
  /\ cc_retval = [kind |-> "return", value |-> <<"text_a">>]

\* A local-engine run for a profile with an allowlist has made a backend call.
C11_RunWitness ==
  /\ LocalRun
  /\ avatar_profile.tools # {}
  /\ Len(chat_calls) >= 1

\* ------------------------------------------------------------- activity gate

\* is_avatar_active has returned.
GateDone == gate_pc = "done"

\* The profile carries a non-empty schedule.
HasSchedule == "schedule" \in DOMAIN gate_profile /\ DOMAIN gate_profile.schedule # {}

\* The categories requested, as a set.
RequestedCategories == {activity_types.items[n] : n \in 1..Len(activity_types.items)}

\* Category c is defined and its window holds the current weekday and hour.
InWindow(c) ==
  /\ c \in DOMAIN gate_profile.schedule
  /\ LET entry == gate_profile.schedule[c]
     IN /\ now_utc.weekday \in dict_get(entry, "days", {})
        /\ dict_get(entry, "start_hour", 0) <= now_utc.hour
        /\ now_utc.hour < dict_get(entry, "end_hour", 24)

\* The example: "work" is Monday to Friday, 9 to 17, and "work" is requested.
WorkExample ==
  /\ gate_profile = [schedule |-> [work |-> WorkWeek]]
  /\ activity_types = [is_none |-> FALSE, items |-> <<"work">>]

\* C12: with a schedule and a non-empty list of categories, is_avatar_active
\* returns true exactly when some requested category is defined in the schedule
\* with the current weekday among its days and start_hour <= hour < end_hour;
\* an undefined category contributes nothing. For work Monday-Friday 9-17:
\* true on Wednesday at 10, false on Saturday at 10, on Wednesday at 20 and at 17.
C12_ActiveIffInWindow ==
  (GateDone /\ HasSchedule /\ RequestedCategories # {}) =>
    /\ gate_result = (\E c \in RequestedCategories : InWindow(c))
    /\ WorkExample =>
         /\ now_utc = [weekday |-> 2, hour |-> 10] => gate_result
         /\ now_utc = [weekday |-> 5, hour |-> 10] => ~gate_result
         /\ now_utc = [weekday |-> 2, hour |-> 20] => ~gate_result
         /\ now_utc.hour = 17 => ~gate_result

\* The example's schedule asked for "work" on a Wednesday at 16 answered true.
C12_Witness ==
  /\ GateDone
  /\ WorkExample
  /\ now_utc = [weekday |-> 2, hour |-> 16]
  /\ gate_result

\* C13: for a profile without a schedule, the key missing or the mapping empty,
\* is_avatar_active returns true at every time and for every list of categories.
C13_NoScheduleAlwaysActive ==
  (GateDone /\ ~HasSchedule) => gate_result

\* An empty schedule asked for a category on a Saturday answered true.
C13_Witness ==
  /\ GateDone
  /\ gate_profile = [schedule |-> <<>>]
  /\ activity_types.items = <<"work">>
  /\ now_utc.weekday = 5
  /\ gate_result

\* Every category the profile's schedule defines, as a list.
AllCategories ==
  [is_none |-> FALSE,
   items |-> IF "schedule" \in DOMAIN gate_profile THEN keys(gate_profile.schedule) ELSE <<>>]

\* C14: called without categories (None or the empty list), is_avatar_active
\* returns what it returns for the list of every category of the schedule.
C14_NoCategoriesMeansAll ==
  (GateDone /\ activity_types.items = <<>>) =>
    /\ gate_result = is_avatar_active(gate_profile, AllCategories, now_utc)
    /\ HasSchedule => gate_result = (\E c \in DOMAIN gate_profile.schedule : InWindow(c))

\* The empty list, for a schedule whose second category alone is open, answered true.
C14_Witness ==
  /\ GateDone
  /\ activity_types = [is_none |-> FALSE, items |-> <<>>]
  /\ gate_profile = [schedule |-> [work |-> WorkWeek, social |-> Weekend]]
  /\ now_utc = [weekday |-> 5, hour |-> 10]
  /\ gate_result

\* ------------------------------------------------------------- filter decision

FilterDone == filter_pc = "done"

\* The backend call of the filter failed: the configuration could not be
\* resolved, the call raised, or its answer carries no text.
BackendFailed ==
  \/ get_llm_config(filter_defaults) = "ValueError"
  \/ cc_retval.kind = "raise"
  \/ cc_retval.kind = "return" /\ cc_retval.value = None

\* The backend answered the filter with a text.
BackendAnswered ==
  /\ cc_retval.kind = "return"
  /\ cc_retval.value # None

\* C15: whenever the filter's backend call fails, should_reply_to_email
\* returns false and raises nothing.
C15_FilterFailsClosed ==
  /\ FilterDone => filter_retval.kind = "return"
  /\ (FilterDone /\ BackendFailed) => filter_retval = [kind |-> "return", value |-> FALSE]

\* The remote backend answered the filter's request with status 500.
C15_Witness ==
  /\ FilterDone
  /\ Len(responses) = 1
  /\ responses[1].status_code = 500
  /\ cc_retval.kind = "raise"
  /\ filter_retval = [kind |-> "return", value |-> FALSE]

\* The outputs that, trimmed and upper-cased, contain the token REPLY.
OutputsWithReply ==
  {<<"R", "E", "P", "L", "Y">>,
   <<"r", "e", "p", "l", "y">>,
   <<" ", "R", "e", "p", "l", "y", "\n">>,
   <<"R", "E", "P", "L", "Y", ".">>,
   <<"N", "O", " ", "R", "E", "P", "L", "Y">>}

\* C16: when the backend answers, should_reply_to_email returns true exactly
\* when the output, trimmed and upper-cased, contains REPLY, and false for
\* every other output, IGNORE in particular.
C16_ReplyIffToken ==
  (FilterDone /\ BackendAnswered) =>
    /\ filter_retval = [kind |-> "return", value |-> cc_retval.value \in OutputsWithReply]
    /\ cc_retval.value = <<"I", "G", "N", "O", "R", "E">> => ~filter_retval.value

\* The output " Reply" followed by a newline made the filter answer true.
C16_Witness ==
  /\ FilterDone
  /\ cc_retval = [kind |-> "return", value |-> <<" ", "R", "e", "p", "l", "y", "\n">>]
  /\ filter_retval = [kind |-> "return", value |-> TRUE]

\* ------------------------------------------------------------- context retrieval

\* The retrieval failed: the embedding raised, or the store gave nothing usable.
RetrievalFailed ==
  \/ embed_calls = 1 /\ query_embedding = "unset" /\ rag_pc # "start"
  \/ store_calls = 1 /\ (results.kind = "None" \/ results.rows = <<>>)

\* C17: context retrieval never raises and never stops generation: when the
\* embedding or the store fails, by raising or by giving no usable result, the
\* context is empty and the run reaches its backend call with that empty
\* context; an empty query makes no embedding call and no store call.
C17_RetrievalNeverRaises ==
  /\ rag_pc # "raised"
  /\ (RetrievalFailed /\ rag_pc \in {"prompt", "backend_call"}) => rag_context = <<>>
  /\ rag_pc = "backend_call" => prompt = [built |-> TRUE, rag_context |-> rag_context]
  /\ no_query(rag_query) => embed_calls = 0 /\ store_calls = 0
  /\ rag_pc \in {"prompt", "backend_call"} =>
       (rag_context # <<>>) = (store_calls = 1 /\ results.kind = "list" /\ results.rows # <<>>)

\* The store's query failed on a connected store holding chunks, and the run
\* reached its backend call with an empty context.
C17_Witness ==
  /\ rag_pc = "backend_call"
  /\ db_state = "query_error"
  /\ documents # <<>>
  /\ store_calls = 1
  /\ results.kind = "None"
  /\ prompt = [built |-> TRUE, rag_context |-> <<>>]

\* The search returned a list of rows.
Searched == store_calls = 1 /\ results.kind = "list"

\* C18: the knowledge search returns at most `limit` chunks, nearest first,
\* and with a distance threshold no chunk whose distance is the threshold or more.
C18_SearchLimitOrderThreshold ==
  Searched =>
    /\ Len(results.rows) <= rag_limit
    /\ \A a, b \in 1..Len(results.rows) :
         a < b => results.rows[a].distance <= results.rows[b].distance
    /\ ~rag_threshold.is_none =>
         \A k \in 1..Len(results.rows) : results.rows[k].distance < rag_threshold.value
    /\ \A k \in 1..Len(results.rows) :
         \E d \in DOMAIN documents : results.rows[k] = Row(documents, d)
    /\ \A d \in DOMAIN documents :
         (\E k \in 1..Len(results.rows) : documents[d] < results.rows[k].distance) =>
           \E k \in 1..Len(results.rows) : results.rows[k] = Row(documents, d)

\* Four chunks stored, limit 3: three rows came back, the nearest first.
C18_Witness ==
  /\ Searched
  /\ Len(documents) = 4
  /\ rag_limit = 3
  /\ Len(results.rows) = 3
  /\ results.rows[1].distance < results.rows[3].distance

\* ------------------------------------------------------------- event bus: dispatch

\* Task t is suspended inside a callback: the callback was invoked and has
\* neither returned nor failed.
InCallback(t) == tasks[t].pc = "callback"

\* Task t has invoked a callback for its current message.
HasInvoked(t) == tasks[t].delivered # <<>>

\* C19: messages are dispatched in the order they were published, one at a
\* time: no callback for a later message is invoked while a callback for an
\* earlier message has neither returned nor failed.
C19_InOrderOneAtATime ==
  /\ dispatched = [n \in 1..Len(dispatched) |-> n]
  /\ \A t, u \in DOMAIN tasks :
       (InCallback(t) /\ HasInvoked(u)) => tasks[u].message.id <= tasks[t].message.id

\* Task t has gone through both lists of its message and is back at the top
\* of the loop.
DispatchCompleted(t) == tasks[t].pc = "loop" /\ tasks[t].message.id # 0

\* The keys a message is dispatched under.
KeysFor(message) ==
  (IF message.recipient_avatar_id # "" THEN {recipient_key(message)} ELSE {})
    \cup {message.message_type}

\* The (key, callback) invocations of task t's message.
Deliveries(t) == {tasks[t].delivered[n] : n \in 1..Len(tasks[t].delivered)}

\* C20: a dispatched message is delivered to every callback registered under
\* its recipient key (when it names a recipient) and under its message type,
\* and to no callback under another key. A callback counts as registered when
\* it was so from the moment the message left the queue to the end of its dispatch.
C20_DeliveredToAllSubscribers ==
  \A t \in DOMAIN tasks :
    DispatchCompleted(t) =>
      /\ \A reg \in tasks[t].stable :
           reg[1] \in KeysFor(tasks[t].message) => reg \in Deliveries(t)
      /\ \A d \in Deliveries(t) : d[1] \in KeysFor(tasks[t].message)

\* ------------------------------------------------------------- event bus: failures

\* No subscribe or unsubscribe call was made since task t took its message.
RegistrationsKept(t) == tasks[t].taken_at = registrations

\* A callback of task t's current message raised and the dispatch went
\* through both lists.
CompletedAfterFailure(t) == DispatchCompleted(t) /\ tasks[t].logged_error

\* A task that is not asked to cancel and sits in a callback is, after any
\* step, still in that callback or back in the for loop with its message.
StaysInDispatch ==
  \A t \in DOMAIN tasks :
    (tasks[t].pc = "callback" /\ ~tasks[t].cancel) =>
      /\ tasks'[t].pc \in {"callback", "dispatch"}
      /\ tasks'[t].message = tasks[t].message
      /\ ~tasks'[t].cancel => tasks'[t].idx = tasks[t].idx

\* C21: a callback's failure is confined to that callback: the other
\* subscribers of the message are still invoked, the consumer task goes on
\* (it is neither ended nor asked to cancel by the failure), and with a message
\* queued the loop takes it next.
C21_FailureConfined ==
  /\ [](\A t \in DOMAIN tasks :
          /\ tasks[t].logged_error => tasks[t].pc \in {"dispatch", "callback", "loop"}
          /\ (CompletedAfterFailure(t) /\ RegistrationsKept(t)) =>
               \A reg \in Registered(subscribers) :
                 reg[1] \in KeysFor(tasks[t].message) => reg \in Deliveries(t)
          /\ (CompletedAfterFailure(t) /\ queue # <<>>) => ENABLED GetMessage)
  /\ [][StaysInDispatch]_vars

\* Two callbacks were invoked for a message, one of them raised, and a second
\* message waits in the queue.
C21_Witness ==
  \E t \in DOMAIN tasks :
    /\ CompletedAfterFailure(t)
    /\ Deliveries(t) = {<<"t", "cbA">>, <<"t", "cbB">>}
    /\ queue # <<>>

\* C22: a message is delivered at most once to each callback, also when the
\* callback is registered under both keys or twice under one key.
C22_AtMostOncePerCallback ==
  \A t \in DOMAIN tasks :
    \A a, b \in 1..Len(tasks[t].delivered) :
      a # b => tasks[t].delivered[a][2] # tasks[t].delivered[b][2]


\* ------------------------------------------------------------- channel checks: failures

\* The position of avatar a in the order of the loop.
avatar_index(a) == CHOOSE k \in 1..Len(AvatarOrder) : AvatarOrder[k] = a

\* The running check has just left avatar a.
Passed(a) == sweep.pc = "avatar" /\ sweep.ai = avatar_index(a) + 1

\* What the current check recorded for item id of avatar a.
Happened(a, id, what) == <<sweep.n, a, id, what>> \in events

\* C23: in a channel check a failure while handling one item or one avatar
\* never aborts the rest: once the check has left an avatar, that avatar was
\* looked at and every item fetched for it was taken up, whatever failed for
\* the others.
C23_FailureNeverAbortsSweep ==
  \A a \in AvatarIds :
    Passed(a) =>
      /\ Happened(a, 0, "checked") \/ Happened(a, 0, "skipped")
      /\ \A id \in 1..MaxItems :
           Happened(a, id, "fetched") => Happened(a, id, "begun")

\* C24: a store failure while reading the conversation's history does not stop
\* the item: once the check has left the avatar, a reply was generated for the
\* item and handed to send_message.
C24_StoreFailureStillReplies ==
  \A a \in AvatarIds :
    \A id \in 1..MaxItems :
      (Passed(a) /\ Happened(a, id, "store_failed")) =>
        Happened(a, id, "generated") /\ Happened(a, id, "send_called")

\* The checks that sent a reply to item id of avatar a.
RepliesTo(a, id) == {e \in events : e[2] = a /\ e[3] = id /\ e[4] = "replied"}

\* C25: an item a check has handled is not returned again by a later
\* fetch_updates, so each item gets at most one automated reply over all the
\* checks of the channel.
C25_NoRedelivery ==
  \A a \in AvatarIds :
    \A id \in 1..MaxItems :
      /\ Cardinality(RepliesTo(a, id)) <= 1
      /\ Happened(a, id, "fetched") => \A e \in RepliesTo(a, id) : e[1] = sweep.n

\* ------------------------------------------------------------- channel checks: order

\* A step of a running check stays with its avatar or moves to the next one,
\* and what it does belongs to the avatar it is at.
OneAvatarAtATime ==
  (sweep.pc # "idle" /\ sweep'.pc # "idle") =>
    /\ sweep'.n = sweep.n
    /\ sweep'.ai \in {sweep.ai, sweep.ai + 1}
    /\ \A e \in events' \ events : e[1] = sweep.n /\ e[2] = AvatarOrder[sweep.ai]

\* C30: within one check the avatars are processed strictly one after another:
\* nothing is done for an avatar before the check has reached it, and the check
\* never returns to an avatar it has left.
C30_AvatarsInSequence ==
  /\ [](\A e \in events :
          (e[1] = sweep.n /\ sweep.pc # "idle") => avatar_index(e[2]) <= sweep.ai)
  /\ [][OneAvatarAtATime]_vars

C30_Witness ==
  /\ channel = "telegram"
  /\ sweep.pc = "avatar"
  /\ sweep.ai > Len(AvatarOrder)
  /\ Happened("a1", 1, "replied")
  /\ Happened("a2", 1, "replied")


\* ------------------------------------------------------------- startup: credentials

\* C26: a missing credential disables only that channel's connector for that
\* avatar, also when resolving the credential fails: startup_event never
\* fails, and once it is over every avatar is loaded, with every connector
\* whose credentials are set and without those whose credentials are missing.
C26_MissingCredentialConfined ==
  /\ startup.pc # "failed"
  /\ startup.pc = "done" =>
       \A a \in AvatarIds :
         /\ a \in elements(loaded)
         /\ \A k \in ConnectorKinds :
              /\ env[a][k] = "set" => k \in registered[a]
              /\ env[a][k] = "missing" => k \notin registered[a]

\* ------------------------------------------------------------- startup: schedules

\* The hours of a schedule entry, read as the gate reads them.
HoursOrdered(details) ==
  /\ 0 <= dict_get(details, "start_hour", 0)
  /\ dict_get(details, "start_hour", 0) < dict_get(details, "end_hour", 24)
  /\ dict_get(details, "end_hour", 24) <= 24

\* C29: every schedule entry of a loaded profile, which is what the gate
\* evaluates, satisfies 0 <= start_hour < end_hour <= 24.
C29_LoadedSchedulesOrdered ==
  \A a \in elements(loaded) :
    "schedule" \in DOMAIN yaml_profiles[a] =>
      \A c \in DOMAIN yaml_profiles[a].schedule :
        HoursOrdered(yaml_profiles[a].schedule[c])


\* ------------------------------------------------------------- tool registry

\* No step replaces or removes the entry registered under a name.
EntriesKept ==
  \A name \in DOMAIN registry :
    name \in DOMAIN registry' /\ registry'[name] = registry[name]

\* C27: tool names in the registry are unique: no registration ever replaces an
\* already registered tool; registering under an existing name fails instead
\* of overwriting the first entry.
C27_NoRegistrationReplaces == [][EntriesKept]_vars


\* ------------------------------------------------------------- history round trip

\* The row belongs to the conversation the last read asked for.
InConversationRead(row) ==
  /\ row.table = last_read.table
  /\ row.table = "chat_history" => chat_matches(row, last_read.conv)
  /\ row.table = "email_history" => mail_matches(row, last_read.conv)

\* The store answered a read with limit 1 made after the last append, for the
\* conversation of the turn appended.
ReadAfterAppend ==
  /\ last_read.table # "none"
  /\ last_read.limit = 1
  /\ last_read.result.kind = "list"
  /\ latest.table # "none"
  /\ last_read.at > latest.message
  /\ InConversationRead(latest)

\* C28: after a turn is appended for a conversation, reading that
\* conversation's history with limit 1 returns exactly that turn, whatever was
\* appended before to this or to other conversations.
C28_HistoryRoundTrip ==
  ReadAfterAppend => last_read.result.rows = <<Turn(latest)>>

C28_Witness ==
  /\ ReadAfterAppend
  /\ last_read.table = "chat_history"
  /\ Len(chat_history) = 3
  /\ Cardinality({r \in 1..3 : chat_matches(chat_history[r], last_read.conv)}) = 2
  /\ last_read.result.rows = <<Turn(chat_history[3])>>


\* ------------------------------------------------------------- channel checks: history

\* C31: in every channel a reply that send_message delivered is appended to
\* the conversation's history, and a reply whose send failed is not appended:
\* for every item of the running check, "delivered" and "appended" go together.
C31_DeliveredReplyAppended ==
  \A a \in AvatarIds :
    \A id \in 1..MaxItems :
      Happened(a, id, "replied") <=> Happened(a, id, "appended")


\* ------------------------------------------------------------- channel checks: gate

\* The category of each channel: work for mail and GitHub, social for the
\* chat channels.
ChannelCategory(c) == IF c \in {"email", "github"} THEN "work" ELSE "social"

\* The check is between fetch_updates and the end of the avatar's items.
AtConnector == sweep.pc \in {"fetch", "item", "send", "mark"}

\* C32: a check never fetches from or sends through a connector of an avatar
\* the gate reports inactive for the check's category at the time of the
\* check, and the gate is asked afresh for each avatar in each check: whenever
\* the check is at an avatar's connector, it asked the gate for this avatar in
\* this run, and the gate says active for the channel's category at that time.
C32_InactiveAvatarUntouched ==
  AtConnector =>
    /\ Happened(CurrentAvatar, 0, "checked")
    /\ ~Happened(CurrentAvatar, 0, "skipped")
    /\ is_avatar_active(profiles[CurrentAvatar],
                        [is_none |-> FALSE, items |-> <<ChannelCategory(channel)>>],
                        sweep.checked_at)

\* An earlier check answered a1's first mail inside the work window; the
\* running one was started in the evening and has just left a1, with its
\* connector and a new unread mail, alone.
C32_Witness ==
  /\ channel = "email"
  /\ profiles["a1"] # <<>>
  /\ connectors["a1"]
  /\ <<0, "a1", 1, "replied">> \in events
  /\ unread["a1"] = {2}
  /\ Passed("a1")
  /\ Happened("a1", 0, "skipped")
  /\ ~Happened("a1", 0, "checked")


\* ------------------------------------------------------------- tool round: allowlist

\* C33: only tools of the profile's allowlist are executed during the avatar's
\* generation: every executable that ran belongs to a tool the profile lists.
C33_OnlyAllowlistedToolsRun ==
  \A n \in 1..Len(executions) : executions[n].name \in avatar_profile.tools


\* ------------------------------------------------------------- mail check

\* The ids the running check fetched for avatar a with this record.
ItemsWith(a, what) == {id \in 1..MaxItems : Happened(a, id, what)}

\* The email_ignored messages published for item id of avatar a, by any check.
IgnoredEvents(a, id) == {e \in events : e[2] = a /\ e[3] = id /\ e[4] = "ignored"}

\* C34: in the mail check a reply is sent for a mail only when the filter
\* decided REPLY for it; an ignored mail gets no reply and exactly one
\* email_ignored message is published for it; once the check has left the
\* avatar, the mails marked read are exactly the ignored ones plus those whose
\* reply was sent successfully, so a mail whose send failed stays unread.
C34_MailBatchOutcome ==
  channel = "email" =>
    \A a \in AvatarIds :
      /\ ItemsWith(a, "ignored") \cap ItemsWith(a, "send_called") = {}
      /\ \A id \in 1..MaxItems :
           Cardinality(IgnoredEvents(a, id)) <= 1
      /\ Passed(a) =>
           ItemsWith(a, "fetched") \ unread[a] =
             ItemsWith(a, "ignored") \cup ItemsWith(a, "replied")

\* C35: every mailbox connection a successful fetch hands to the check is
\* logged out before the check moves to the next avatar, on every path.
C35_MailboxLoggedOut ==
  \A a \in AvatarIds :
    (Passed(a) /\ Happened(a, 0, "opened")) => Happened(a, 0, "logout")


\* ------------------------------------------------------------- event bus: consumers

\* Task t holds a message whose dispatch is not over.
Dispatching(t) == tasks[t].pc \in {"dispatch", "callback"}

\* Task t was created, has not ended and was not asked to cancel.
Running(t) == tasks[t].pc \notin {"unborn", "ended"} /\ ~tasks[t].cancel

\* C36: for every sequence of start_processing and stop_processing calls at
\* most one consumer task dispatches messages at any time: start_processing
\* with a consumer running creates no second one, no message is taken from the
\* queue twice, and no two tasks are in the dispatch of a message together.
C36_SingleConsumer ==
  /\ Cardinality({t \in DOMAIN tasks : Running(t)}) <= 1
  /\ \A a, b \in 1..Len(dispatched) : a # b => dispatched[a] # dispatched[b]
  /\ Cardinality({t \in DOMAIN tasks : Dispatching(t)}) <= 1


\* ------------------------------------------------------------- event bus: stop and restart

\* The ids of the messages in a list.
Ids(list) == [n \in 1..Len(list) |-> list[n].id]

\* The queue changes only at its ends: publish adds a message at the back,
\* and the front leaves into the hands of a task that is not asked to cancel.
QueueKept ==
  queue' # queue =>
    \/ /\ Len(queue') = Len(queue) + 1
       /\ SubSeq(queue', 1, Len(queue)) = queue
    \/ /\ queue # <<>>
       /\ queue' = Tail(queue)
       /\ \E t \in DOMAIN tasks :
            ~tasks'[t].cancel /\ Dispatching(t)' /\ tasks'[t].message = Head(queue)

\* A task leaves the dispatch of its message by finishing both lists, or
\* because stop_processing asked it to cancel in the middle.
AbandonedOnlyByStop ==
  \A t \in DOMAIN tasks :
    (Dispatching(t) /\ ~Dispatching(t)') =>
      \/ tasks'[t].pc = "loop" /\ tasks'[t].message = tasks[t].message
      \/ tasks[t].cancel

Queued(id) == \E n \in 1..Len(queue) : queue[n].id = id

\* The dispatch of a message to its subscribers is over.
Dispatched(id) == \E t \in DOMAIN tasks : DispatchCompleted(t) /\ tasks[t].message.id = id

\* C37: while a consumer task is running and every callback returns, every
\* published message is eventually dispatched to its subscribers: a message
\* in the queue of a bus with a consumer leads to the end of its dispatch,
\* unless the consumer is stopped first.
C37_EventuallyDispatched ==
  \A id \in 1..MaxMessages :
    (Queued(id) /\ processing_task # 0) ~> (Dispatched(id) \/ processing_task = 0)

\* Two messages were published with the consumer waiting, and the second has
\* been dispatched to a subscriber by the consumer started first.
C37_Witness ==
  /\ processing_task = 1
  /\ tasks[2].pc = "unborn"
  /\ published = 2
  /\ Dispatched(2)
  /\ HasInvoked(1)

\* ------------------------------------------------------------- discord: repeats

\* The message ids handed out so far: by the finished calls, and in the
\* updates lists of the calls under way.
HandedOut(id) ==
  Cardinality({n \in 1..Len(returned) : returned[n] = id})
    + Cardinality({<<k, n>> \in Callers \X (1..MaxPosts) :
        n <= Len(fetches[k].updates) /\ fetches[k].updates[n] = id})

\* A call puts a message id into its updates in this step.
Takes(k, id) ==
  /\ Len(fetches'[k].updates) = Len(fetches[k].updates) + 1
  /\ fetches'[k].updates[Len(fetches'[k].updates)] = id

\* C39: over the connector's lifetime no message id is returned by
\* fetch_updates more than once, whether the calls follow each other or
\* overlap; and the step in which a call takes a message id into its updates
\* is the step that finds it absent from the processed set and puts it there.
C39_MessageReturnedOnce ==
  /\ [](\A id \in 1..MaxPosts : HandedOut(id) <= 1)
  /\ [][\A k \in Callers, id \in 1..MaxPosts :
         Takes(k, id) => id \notin processed_messages /\ id \in processed_messages']_vars

\* Two overlapping calls were given the same message by history(): one has
\* taken it, the other, resumed later, holds it and is about to test it.
C39_Witness ==
  /\ fetches["scheduled"].updates = <<1>>
  /\ fetches["scheduled"].pc # "idle"
  /\ fetches["manual"].pc = "message"
  /\ fetches["manual"].message.id = 1

====
